---- MODULE Spec2Model ----
(***************************************************************************)
(* Verification model of the AliceUI tool-invocation pipeline:             *)
(*   - the path sandbox   (app/tools/tools_lib/_base.py)                   *)
(*   - the filesystem tools that depend on it (file_tools, system_tools,   *)
(*     directory_tools, project_tools)                                     *)
(*   - the tool invoker   (app/tools/tool_executor.py)                     *)
(*   - the two-pass orchestration loop (app/api/openai_bridge.py)          *)
(*                                                                         *)
(* Path strings are sequences of one-character strings, so that joining,   *)
(* splitting, canonicalisation and prefix tests are computed on the text   *)
(* of a path exactly as posixpath computes them.                           *)
(***************************************************************************)
EXTENDS Integers, Sequences, FiniteSets, TLC

\* ------------------------------------------------------------------------
\* Bounds of the model
\* ------------------------------------------------------------------------

\* Longest caller-supplied path, counted in '/'-separated segments.
MaxComps == 3

\* ------------------------------------------------------------------------
\* Text helpers
\* ------------------------------------------------------------------------

\* Python None; a text no path can equal
None == <<"None">>

sep == "/"

\* s[i..] (1-based), the Python slice s[i-1:]
Drop(s, i) == SubSeq(s, i, Len(s))

\* str.startswith
StartsWith(s, p) == Len(p) =< Len(s) /\ SubSeq(s, 1, Len(p)) = p

\* index of the first '/' in s, 0 when there is none
RECURSIVE FindSep(_, _)
FindSep(s, i) ==
    IF i > Len(s) THEN 0
    ELSE IF s[i] = sep THEN i
    ELSE FindSep(s, i + 1)

\* index of the last '/' in s, 0 when there is none
RECURSIVE RFindSep(_, _)
RFindSep(s, i) ==
    IF i = 0 THEN 0
    ELSE IF s[i] = sep THEN i
    ELSE RFindSep(s, i - 1)

\* str.partition('/'): head and the text after the first '/'
Partition(s) ==
    LET i == FindSep(s, 1)
    IN IF i = 0 THEN [name |-> s, rest |-> <<>>]
       ELSE [name |-> SubSeq(s, 1, i - 1), rest |-> Drop(s, i + 1)]

\* str.split('/')
RECURSIVE Split(_)
Split(s) ==
    LET i == FindSep(s, 1)
    IN IF i = 0 THEN <<s>>
       ELSE <<SubSeq(s, 1, i - 1)>> \o Split(Drop(s, i + 1))

\* '/'.join(parts)
RECURSIVE JoinSep(_)
JoinSep(parts) ==
    IF parts = <<>> THEN <<>>
    ELSE IF Len(parts) = 1 THEN parts[1]
    ELSE parts[1] \o <<sep>> \o JoinSep(Tail(parts))

\* str.rstrip('/')
RECURSIVE RStripSep(_)
RStripSep(s) ==
    IF s # <<>> /\ s[Len(s)] = sep THEN RStripSep(SubSeq(s, 1, Len(s) - 1))
    ELSE s

AllSep(s) == \A i \in 1..Len(s) : s[i] = sep

\* one statement after another: the value computed from the result of the
\* statement before it, which is evaluated once
Sequenced(S) == CHOOSE x \in S : TRUE

\* ------------------------------------------------------------------------
\* posixpath
\* ------------------------------------------------------------------------

\* os.path.isabs
isabs(p) == p # <<>> /\ p[1] = sep

\* os.path.join(a, b)
join(a, b) ==
    IF isabs(b) THEN b
    ELSE IF a = <<>> \/ a[Len(a)] = sep THEN a \o b
    ELSE a \o <<sep>> \o b

\* os.path.split(p) -> (head, tail)
split(p) ==
    LET i == RFindSep(p, Len(p))
        head == SubSeq(p, 1, i)
        tail == Drop(p, i + 1)
    IN [head |-> IF head # <<>> /\ ~AllSep(head) THEN RStripSep(head) ELSE head,
        tail |-> tail]

\* os.path.dirname
dirname(p) == split(p).head

curdir == <<".">>
pardir == <<".", ".">>

\* the segments of a path that posixpath.commonpath compares
RECURSIVE DropEmptyAndCur(_)
DropEmptyAndCur(parts) ==
    IF parts = <<>> THEN <<>>
    ELSE IF parts[1] = <<>> \/ parts[1] = curdir THEN DropEmptyAndCur(Tail(parts))
    ELSE <<parts[1]>> \o DropEmptyAndCur(Tail(parts))

Components(p) == DropEmptyAndCur(Split(p))

RECURSIVE CommonPrefix(_, _)
CommonPrefix(a, b) ==
    IF a = <<>> \/ b = <<>> \/ a[1] # b[1] THEN <<>>
    ELSE <<a[1]>> \o CommonPrefix(Tail(a), Tail(b))

\* os.path.commonpath([a, b]) for two absolute paths
commonpath(a, b) == <<sep>> \o JoinSep(CommonPrefix(Components(a), Components(b)))

\* a is a prefix of b, segment by segment
IsComponentPrefix(a, b) == Len(a) =< Len(b) /\ SubSeq(b, 1, Len(a)) = a

\* os.path.normpath for an absolute path
RECURSIVE NormComps(_, _)
NormComps(parts, acc) ==
    IF parts = <<>> THEN acc
    ELSE IF parts[1] = <<>> \/ parts[1] = curdir THEN NormComps(Tail(parts), acc)
    ELSE IF parts[1] = pardir
         THEN NormComps(Tail(parts), IF acc = <<>> THEN acc ELSE SubSeq(acc, 1, Len(acc) - 1))
    ELSE NormComps(Tail(parts), Append(acc, parts[1]))

normpath(p) ==
    LET slashes == IF StartsWith(p, <<sep, sep>>) /\ ~StartsWith(p, <<sep, sep, sep>>)
                   THEN <<sep, sep>> ELSE <<sep>>
    IN slashes \o JoinSep(NormComps(Split(p), <<>>))

\* ------------------------------------------------------------------------
\* The filesystem the tools run on
\* ------------------------------------------------------------------------
\*   /            directory
\*   /s           directory, the configured workspace
\*   /s/e         directory          /s/s   regular file
\*   /s/l         symbolic link planted inside the workspace (target varies)
\*   /se          directory outside the workspace whose name extends "s"
\*   /se/s        regular file       /e     directory      /e/s  regular file
\*   /r           symbolic link to /s (a non-canonical spelling of the root)

VARIABLES
    FILE_IO_DIR,    \* _base.FILE_IO_DIR, fixed at import time
    link_target,    \* target text of the symbolic link /s/l, None if absent
    fs_dirs,        \* canonical paths of the directories that exist
    fs_files,       \* canonical paths of the regular files that exist
    sb_path,        \* argument of the last _resolve_and_validate_path call
    sb_ret,         \* its return value (a path, or None)
    sb_fs_calls,    \* number of os.path.realpath calls it made
    sb_log,         \* the warning it printed
    ft_name,      \* the filesystem tool invoked last, "idle" before any
    ft_args,      \* its caller-supplied arguments
    ft_ret,       \* "ok" or "error"
    ft_touched    \* the accesses it performed

P_root == <<sep>>
P_s    == <<sep, "s">>
P_s_e  == <<sep, "s", sep, "e">>
P_s_s  == <<sep, "s", sep, "s">>
P_s_l  == <<sep, "s", sep, "l">>
P_se   == <<sep, "s", "e">>
P_se_s == <<sep, "s", "e", sep, "s">>
P_e    == <<sep, "e">>
P_e_s  == <<sep, "e", sep, "s">>
P_r    == <<sep, "r">>

\* the directories and files present when the process starts
Dirs  == {P_root, P_s, P_s_e, P_se, P_e}
Files == {P_s_s, P_se_s, P_e_s}

\* the texts the link /s/l may hold
LinkTargets == {None, P_se, <<".", ".">>, <<".", ".", sep, "s", "e">>, <<"e">>, <<"l">>, P_s_s}

\* the configured values of FILE_IO_DIR
RootConfigs == {P_s, P_r, <<>>}

\* the working directory of the process
ProcessCwd == P_root

\* os.lstat(p) reports a symbolic link
islink(p) ==
    \/ p = P_r
    \/ p = P_s_l /\ link_target # None

\* os.readlink(p)
readlink(p) == IF p = P_r THEN P_s ELSE link_target

\* os.path.abspath
abspath(p) == IF isabs(p) THEN normpath(p) ELSE normpath(join(ProcessCwd, p))

\* posixpath._joinrealpath(path, rest, strict=False, seen); the while loop is
\* _joinrealpath_loop.  seen maps a link path to its resolution, or to None
\* while it is being resolved.
RECURSIVE _joinrealpath(_, _, _)
RECURSIVE _joinrealpath_loop(_, _, _)
_joinrealpath_loop(path, rest, seen) ==
    IF rest = <<>> THEN [path |-> path, ok |-> TRUE, seen |-> seen]
    ELSE
      LET pt      == Partition(rest)
          name    == pt.name
          rest2   == pt.rest
          newpath == join(path, name)
      IN
      IF name = <<>> \/ name = curdir THEN _joinrealpath_loop(path, rest2, seen)
      ELSE IF name = pardir THEN
          IF path # <<>>
          THEN LET sp == split(path)
               IN _joinrealpath_loop(
                    IF sp.tail = pardir THEN join(join(sp.head, pardir), pardir) ELSE sp.head,
                    rest2, seen)
          ELSE _joinrealpath_loop(pardir, rest2, seen)
      ELSE IF ~islink(newpath) THEN _joinrealpath_loop(newpath, rest2, seen)
      ELSE IF newpath \in DOMAIN seen THEN
          IF seen[newpath] # None
          THEN _joinrealpath_loop(seen[newpath], rest2, seen)
          ELSE [path |-> join(newpath, rest2), ok |-> FALSE, seen |-> seen]
      ELSE
          LET r == _joinrealpath(path, readlink(newpath), (newpath :> None) @@ seen)
          IN IF ~r.ok
             THEN [path |-> join(r.path, rest2), ok |-> FALSE, seen |-> r.seen]
             ELSE _joinrealpath_loop(r.path, rest2, (newpath :> r.path) @@ r.seen)

_joinrealpath(path, rest, seen) ==
    IF isabs(rest) THEN _joinrealpath_loop(<<sep>>, Drop(rest, 2), seen)
    ELSE _joinrealpath_loop(path, rest, seen)

\* os.path.realpath
realpath(filename) == abspath(_joinrealpath(<<>>, filename, <<>>).path)

\* ------------------------------------------------------------------------
\* What the operating system does with a path
\* ------------------------------------------------------------------------

\* The object a path names for the kernel, given the directories and files
\* that exist: every symbolic link is followed, every intermediate name must
\* be a directory.  The result is the canonical path of the object, or None
\* (ENOENT, ENOTDIR, ELOOP).  cur is the directory reached so far, visiting
\* the links being resolved; with missing_ok a last name that does not exist
\* yet is located in its parent (the place open(..., 'w') creates it).
RECURSIVE KernelWalk(_, _, _, _, _, _)
KernelWalk(dirs, files, cur, rest, visiting, missing_ok) ==
    IF cur = None THEN None
    ELSE IF rest = <<>> THEN cur
    ELSE IF cur \notin dirs THEN None
    ELSE
      LET pt      == Partition(rest)
          name    == pt.name
          rest2   == pt.rest
          newpath == join(cur, name)
      IN
      IF name = <<>> \/ name = curdir
      THEN KernelWalk(dirs, files, cur, rest2, visiting, missing_ok)
      ELSE IF name = pardir
      THEN KernelWalk(dirs, files, dirname(cur), rest2, visiting, missing_ok)
      ELSE IF islink(newpath) THEN
          IF newpath \in visiting THEN None
          ELSE LET t == readlink(newpath)
                   r == KernelWalk(dirs, files,
                                   IF isabs(t) THEN P_root ELSE cur, t,
                                   visiting \cup {newpath}, missing_ok /\ rest2 = <<>>)
               IN KernelWalk(dirs, files, r, rest2, visiting, missing_ok)
      ELSE IF newpath \in dirs \cup files
      THEN KernelWalk(dirs, files, newpath, rest2, visiting, missing_ok)
      ELSE IF missing_ok /\ rest2 = <<>> THEN newpath
      ELSE None

KernelResolve(dirs, files, p) ==
    IF p = <<>> THEN None
    ELSE KernelWalk(dirs, files, IF isabs(p) THEN P_root ELSE ProcessCwd, p, {}, FALSE)

\* where the kernel creates or opens the object named p
KernelLocate(dirs, files, p) ==
    IF p = <<>> THEN None
    ELSE KernelWalk(dirs, files, IF isabs(p) THEN P_root ELSE ProcessCwd, p, {}, TRUE)

\* os.path.exists / isdir / isfile
exists(dirs, files, p) == KernelResolve(dirs, files, p) # None
isdir(dirs, files, p)  == KernelResolve(dirs, files, p) \in dirs
isfile(dirs, files, p) == KernelResolve(dirs, files, p) \in files

\* p and every path above it, for an absolute path without '.' or '..'
RECURSIVE PathAndParents(_)
PathAndParents(p) ==
    IF p = P_root \/ p = <<>> THEN {}
    ELSE {p} \cup PathAndParents(dirname(p))

\* p lies at or below the directory d (both canonical)
Under(d, p) == IsComponentPrefix(Components(d), Components(p))

\* os.makedirs(p, exist_ok=True) for the absolute path p a tool validated:
\* ok and the directories afterwards
makedirs(dirs, files, p) ==
    LET chain == PathAndParents(p)
    IN IF \E q \in chain : islink(q) \/ q \in files
       THEN [ok |-> FALSE, dirs |-> dirs]
       ELSE [ok |-> TRUE, dirs |-> dirs \cup chain]

\* ------------------------------------------------------------------------
\* Path sandbox: tools_lib/_base.py
\* ------------------------------------------------------------------------

\* a raw text comparison in place of Security Check 3
InsideBase_startswith(base_path, intended_path) == StartsWith(intended_path, base_path)

\* Security Check 3 of _resolve_and_validate_path
InsideBase(base_path, intended_path) == commonpath(base_path, intended_path) = base_path

\* _resolve_and_validate_path without Security Check 1
_resolve_and_validate_path_no_abs_check(relative_path) ==
    IF FILE_IO_DIR = <<>>
    THEN [ret |-> None, fs_calls |-> 0, log |-> "not_configured"]
    ELSE
      Sequenced({ Sequenced({
          IF ~InsideBase(base_path, intended_path)
          THEN [ret |-> None, fs_calls |-> 2, log |-> "path_traversal"]
          ELSE [ret |-> intended_path, fs_calls |-> 2, log |-> "none"]
          : intended_path \in {realpath(join(base_path, relative_path))} })
          : base_path \in {realpath(FILE_IO_DIR)} })

\* _resolve_and_validate_path returning the joined path it validated instead
\* of the canonical one
_resolve_and_validate_path_uncanonical(relative_path) ==
    IF FILE_IO_DIR = <<>>
    THEN [ret |-> None, fs_calls |-> 0, log |-> "not_configured"]
    ELSE IF isabs(relative_path)
    THEN [ret |-> None, fs_calls |-> 0, log |-> "absolute_path"]
    ELSE
      Sequenced({ Sequenced({
          IF ~InsideBase(base_path, intended_path)
          THEN [ret |-> None, fs_calls |-> 2, log |-> "path_traversal"]
          ELSE [ret |-> join(base_path, relative_path), fs_calls |-> 2, log |-> "none"]
          : intended_path \in {realpath(join(base_path, relative_path))} })
          : base_path \in {realpath(FILE_IO_DIR)} })

\* _resolve_and_validate_path(relative_path): the value returned, the number
\* of realpath calls made and the warning printed
_resolve_and_validate_path(relative_path) ==
    IF FILE_IO_DIR = <<>>
    THEN [ret |-> None, fs_calls |-> 0, log |-> "not_configured"]
    ELSE IF isabs(relative_path)
    THEN [ret |-> None, fs_calls |-> 0, log |-> "absolute_path"]
    ELSE
      Sequenced({ Sequenced({
          IF ~InsideBase(base_path, intended_path)
          THEN [ret |-> None, fs_calls |-> 2, log |-> "path_traversal"]
          ELSE [ret |-> intended_path, fs_calls |-> 2, log |-> "none"]
          : intended_path \in {realpath(join(base_path, relative_path))} })
          : base_path \in {realpath(FILE_IO_DIR)} })

\* the segments a caller-supplied path is built from
Segments == { <<>>, curdir, pardir, <<"s">>, <<"s", "e">>, <<"e">>, <<"l">> }

RECURSIVE SegSeqs(_)
SegSeqs(n) ==
    IF n = 0 THEN { <<>> }
    ELSE LET shorter == SegSeqs(n - 1)
         IN shorter \cup { Append(q, g) : q \in { x \in shorter : Len(x) = n - 1 }, g \in Segments }

\* the caller-supplied path texts: up to MaxComps segments joined by '/'
PathInputs == { JoinSep(q) : q \in SegSeqs(MaxComps) }

sbVars == <<sb_path, sb_ret, sb_fs_calls, sb_log>>
fsVars == <<FILE_IO_DIR, link_target, fs_dirs, fs_files>>
toolVars == <<ft_name, ft_args, ft_ret, ft_touched>>

\* state of the tool invoker (tools/tool_executor.py)
VARIABLES
    ex_tool_name,   \* tool_name of the last execute_tool call, "idle" before
    ex_arguments,   \* its arguments
    ex_mapping,     \* the names registered in its tool_mapping
    ex_behaviour,   \* what the tool body does once its parameters are bound
    ex_out,         \* [raised, value]: the exception that reached the caller
                    \* ("none" if it returned) and the value returned
    ex_invoked      \* the names whose callable was called

exVars == <<ex_tool_name, ex_arguments, ex_mapping, ex_behaviour, ex_out, ex_invoked>>

VARIABLES
    rt_self,            \* the OpenAIWithToolServer object: system_prompt,
                        \* try_batch_execute, parallel_batch
    ts_cache,           \* ToolServerClient._cache: conversation id -> entry
    ts_now,             \* the reading of time.time()
    rt_pc,              \* where run_one_turn stands
    rt_conversation_id, \* its conversation_id argument
    rt_messages,        \* the caller's messages list
    rt_tools,           \* tools, alias_map of step 1
    rt_msgs,            \* msgs: the conversation of the first call
    rt_first_msg,       \* first.choices[0].message
    rt_final_msg,       \* final.choices[0].message
    rt_msgs_with_tools, \* the working conversation of steps 3 and 4
    rt_calls_payload,   \* calls_payload
    rt_tool_results,    \* tool_results
    rt_batch_ok,        \* batch_ok
    rt_next_call,       \* position of the sequential loop in calls_payload
    rt_model_requests,  \* the chat.completions.create requests sent, in order
    rt_ts_requests,     \* the Tool Server requests sent, in order
    rt_return,          \* the (text, details) returned
    rt_raised           \* the exception that left run_one_turn, "none" if none

rtVars == <<rt_self, ts_cache, ts_now, rt_pc, rt_conversation_id, rt_messages, rt_tools,
            rt_msgs, rt_first_msg, rt_final_msg, rt_msgs_with_tools, rt_calls_payload, rt_tool_results,
            rt_batch_ok, rt_next_call, rt_model_requests, rt_ts_requests, rt_return,
            rt_raised>>

\* the variables of a turn other than the client's cache and the clock
turnVars == <<rt_self, rt_pc, rt_conversation_id, rt_messages, rt_tools, rt_msgs, rt_first_msg,
              rt_final_msg, rt_msgs_with_tools, rt_calls_payload, rt_tool_results, rt_batch_ok,
              rt_next_call, rt_model_requests, rt_ts_requests, rt_return, rt_raised>>

VARIABLES
    bt_call,        \* the last build_openai_tools call: its arguments, the clock
                    \* reading, whether /discover was asked, what it returned
    bt_before,      \* the cache as that call found it
    bt_ttl,         \* per conversation, the TTL of the answer its entry was stored from
    bt_ttl_before   \* bt_ttl as that call found it

cacheVars == <<bt_call, bt_before, bt_ttl, bt_ttl_before>>

VARIABLES
    ALL_TOOL_DEFINITIONS,   \* tools.ALL_TOOL_DEFINITIONS: the names of the
                            \* definitions loaded from the JSON files, in order
    embedding_client,       \* whether embedding_model.client is set
    gt_conversation,        \* the roles of the conversation get_tools was given
    gt_query,               \* what the collection query answered
    gt_out                  \* what get_tools returned or raised

selVars == <<ALL_TOOL_DEFINITIONS, embedding_client, gt_conversation, gt_query, gt_out>>

VARIABLES
    wr_max_retries,     \* _with_retries: the max_retries argument
    wr_base_delay,      \* the base_delay argument
    wr_pc,              \* "loop", "after_loop", "returned", "raised"
    wr_attempt,         \* the number of calls of func made
    wr_delay,           \* delay
    wr_last_exc,        \* last_exc
    wr_outcomes,        \* what each call of func did, in order
    wr_waits,           \* the arguments of time.sleep, in order
    wr_raised,          \* the exception _with_retries raised
    wr_signal           \* the signal the worker emitted

retryVars == <<wr_max_retries, wr_base_delay, wr_pc, wr_attempt, wr_delay,
               wr_last_exc, wr_outcomes, wr_waits, wr_raised, wr_signal>>

VARIABLES
    reg_json,                   \* the .json file beside each tool module
    reg_mapping,                \* tools.TOOL_MAPPING: the names registered
    TOOL_NAME_TO_DESCRIPTION,   \* tools.TOOL_NAME_TO_DESCRIPTION
    reg_runs,                   \* how often _load_all_tools_from_modules ran
    reg_first                   \* the three globals after its first run

regVars == <<reg_json, reg_mapping, TOOL_NAME_TO_DESCRIPTION, reg_runs, reg_first>>

VARIABLES
    ct_inference_active,    \* ChatTab._inference_active
    ct_input_enabled,       \* input_field.isEnabled()
    ct_stt_queue,           \* ChatTab._stt_queue
    ct_stt_mode,            \* stt_mode.currentText()
    ct_model_data,          \* model_selection.currentData()
    ct_current_conv_id,     \* ChatTab._current_conv_id
    ct_index,               \* ConversationManager._index["conversations"], by id
    ct_files,               \* the payload file of each conversation id
    ct_provider_saved,      \* whether QSettings holds the selected provider
    ct_workers,             \* the LLM workers started and not yet heard from
    ct_models_worker,       \* the GetRemoteModelsWorker: "idle", "running", "finished"
    ct_texts,               \* how many messages the user has typed or spoken
    ct_panel_actions,       \* how many times the user has acted on the panel
    ct_persisted            \* every append_message made: message, role, conversation

chatVars == <<ct_inference_active, ct_input_enabled, ct_stt_queue, ct_stt_mode, ct_model_data,
              ct_current_conv_id, ct_index, ct_files, ct_provider_saved, ct_workers,
              ct_models_worker, ct_texts, ct_panel_actions, ct_persisted>>

\* the variables of the parts that follow the orchestration
restVars == <<cacheVars, selVars, retryVars, regVars, chatVars>>

\* the configuration: how the root is spelled and what /s/l points to
InitFsConfig ==
    /\ FILE_IO_DIR \in RootConfigs
    /\ link_target \in LinkTargets

\* the content present at start
InitFsFull ==
    /\ fs_dirs = Dirs
    /\ fs_files = Files

\* the content left by earlier tool calls: the workspace holds the
\* directory /s/e and the file /s/s, or neither
InitFsContent ==
    \/ fs_dirs = Dirs /\ fs_files = Files
    \/ fs_dirs = Dirs \ {P_s_e} /\ fs_files = Files \ {P_s_s}

InitSandbox ==
    /\ sb_path = None
    /\ sb_ret = None
    /\ sb_fs_calls = 0
    /\ sb_log = "none"

\* one call of _resolve_and_validate_path; the function keeps no state of its
\* own, so a behaviour holds a single call
ResolveCall ==
    \E p \in PathInputs :
        LET r == _resolve_and_validate_path(p)
        IN /\ sb_path = None
           /\ sb_path' = p
           /\ sb_ret' = r.ret
           /\ sb_fs_calls' = r.fs_calls
           /\ sb_log' = r.log
           /\ UNCHANGED <<fsVars, toolVars, exVars, rtVars, restVars>>


\* ------------------------------------------------------------------------
\* Filesystem tools: file_tools.py, directory_tools.py, system_tools.py,
\* project_tools.py.  A tool yields its outcome ("ok" or "error"), the
\* directories and files that exist afterwards, and the set of accesses it
\* performed, each an operation and the canonical place it acted on.
\* ------------------------------------------------------------------------

ToolError(dirs, files, touched) ==
    [ret |-> "error", dirs |-> dirs, files |-> files, touched |-> touched]

ToolOk(dirs, files, touched) ==
    [ret |-> "ok", dirs |-> dirs, files |-> files, touched |-> touched]

Touch(op, at) == [op |-> op, at |-> at]

\* os.makedirs(dirname(safe), exist_ok=True) followed by open(safe, mode)
\* and a write: the body shared by save_file and append_to_file
WriteAt(dirs, files, safe_abs_path, op) ==
    LET md  == makedirs(dirs, files, dirname(safe_abs_path))
        loc == KernelLocate(md.dirs, files, safe_abs_path)
        made == { Touch("mkdir", d) : d \in md.dirs \ dirs }
    IN IF ~md.ok THEN ToolError(dirs, files, {})
       ELSE IF loc = None \/ loc \in md.dirs THEN ToolError(md.dirs, files, made)
       ELSE ToolOk(md.dirs, files \cup {loc}, made \cup {Touch(op, loc)})

\* file_tools.save_file(path, content)
save_file(dirs, files, path) ==
    Sequenced({ IF safe_abs_path = None THEN ToolError(dirs, files, {})
                ELSE WriteAt(dirs, files, safe_abs_path, "write")
                : safe_abs_path \in {_resolve_and_validate_path(path).ret} })

\* file_tools.append_to_file(path, content)
append_to_file(dirs, files, path) ==
    Sequenced({ IF safe_abs_path = None THEN ToolError(dirs, files, {})
                ELSE WriteAt(dirs, files, safe_abs_path, "append")
                : safe_abs_path \in {_resolve_and_validate_path(path).ret} })

\* file_tools.read_file(path)
read_file(dirs, files, path) ==
    Sequenced({
        IF safe_abs_path = None THEN ToolError(dirs, files, {})
        ELSE IF ~exists(dirs, files, safe_abs_path) THEN ToolError(dirs, files, {})
        ELSE IF ~isfile(dirs, files, safe_abs_path) THEN ToolError(dirs, files, {})
        ELSE ToolOk(dirs, files, {Touch("read", KernelResolve(dirs, files, safe_abs_path))})
        : safe_abs_path \in {_resolve_and_validate_path(path).ret} })

\* file_tools.delete_file(path)
delete_file(dirs, files, path) ==
    Sequenced({
        IF safe_abs_path = None THEN ToolError(dirs, files, {})
        ELSE IF ~exists(dirs, files, safe_abs_path) THEN ToolError(dirs, files, {})
        ELSE IF ~isfile(dirs, files, safe_abs_path) THEN ToolError(dirs, files, {})
        ELSE Sequenced({ ToolOk(dirs, files \ {loc}, {Touch("delete", loc)})
                         : loc \in {KernelResolve(dirs, files, safe_abs_path)} })
        : safe_abs_path \in {_resolve_and_validate_path(path).ret} })

\* the paths of a set that lie at or below src, re-rooted at dst
Rebase(paths, src, dst) == { dst \o Drop(q, Len(src) + 1) : q \in { x \in paths : Under(src, x) } }

\* os.path.basename
basename(p) == split(p).tail

\* shutil.move(src, dst) for two validated paths, src existing
shutil_move(dirs, files, src, dst) ==
    LET into     == isdir(dirs, files, dst)
        real_dst == IF into THEN join(dst, basename(RStripSep(src))) ELSE dst
        moved    == {Touch("move_from", src), Touch("move_to", real_dst)}
    IN IF into /\ src = dst THEN ToolOk(dirs, files, {Touch("move_from", src), Touch("move_to", dst)})
       ELSE IF into /\ exists(dirs, files, real_dst) THEN ToolError(dirs, files, {})
       ELSE IF src \in files THEN
            IF src = real_dst THEN ToolOk(dirs, files, moved)
            ELSE IF dirname(real_dst) \in dirs /\ ~islink(real_dst)
                 THEN ToolOk(dirs, (files \ {src}) \cup {real_dst}, moved)
                 ELSE ToolError(dirs, files, {})
       ELSE \* src is a directory
            IF Under(src, real_dst) THEN ToolError(dirs, files, {})
            ELSE IF real_dst \in files \/ islink(real_dst) THEN ToolError(dirs, files, {})
            ELSE IF ~makedirs(dirs, files, dirname(real_dst)).ok THEN ToolError(dirs, files, {})
            ELSE ToolOk(
                   ({ d \in dirs : ~Under(src, d) } \cup Rebase(dirs, src, real_dst))
                       \cup PathAndParents(real_dst),
                   { f \in files : ~Under(src, f) } \cup Rebase(files, src, real_dst),
                   moved)

\* file_tools.move_item(source, destination)
move_item(dirs, files, source, destination) ==
    Sequenced({
        IF source_path = None THEN ToolError(dirs, files, {})
        ELSE IF dest_path = None THEN ToolError(dirs, files, {})
        ELSE IF ~exists(dirs, files, source_path) THEN ToolError(dirs, files, {})
        ELSE shutil_move(dirs, files, source_path, dest_path)
        : source_path \in {_resolve_and_validate_path(source).ret},
          dest_path \in {_resolve_and_validate_path(destination).ret} })

\* directory_tools.create_directory(directory_name)
create_directory(dirs, files, directory_name) ==
    Sequenced({
        IF safe_abs_path = None THEN ToolError(dirs, files, {})
        ELSE Sequenced({
            IF ~md.ok THEN ToolError(dirs, files, {})
            ELSE ToolOk(md.dirs, files, { Touch("mkdir", d) : d \in md.dirs \ dirs })
            : md \in {makedirs(dirs, files, safe_abs_path)} })
        : safe_abs_path \in {_resolve_and_validate_path(directory_name).ret} })

\* directory_tools.delete_directory(directory_name)
delete_directory(dirs, files, directory_name) ==
    Sequenced({
        IF safe_abs_path = None THEN ToolError(dirs, files, {})
        ELSE IF ~isdir(dirs, files, safe_abs_path) THEN ToolError(dirs, files, {})
        ELSE IF safe_abs_path = realpath(FILE_IO_DIR) THEN ToolError(dirs, files, {})
        ELSE ToolOk({ d \in dirs : ~Under(safe_abs_path, d) },
                    { f \in files : ~Under(safe_abs_path, f) },
                    {Touch("rmtree", safe_abs_path)})
        : safe_abs_path \in {_resolve_and_validate_path(directory_name).ret} })

\* the commands execute_shell_command refuses to run
BlockedCommands == {"sudo", "rm", "mv"}

\* system_tools.execute_shell_command(command, timeout, working_dir);
\* command is the first word of the command line, "" for an empty line.
\* What the child process itself does is outside the model; the access
\* recorded is the directory it is started in.
execute_shell_command(dirs, files, command, working_dir) ==
    LET effective_dir == IF working_dir = None \/ working_dir = <<>>
                         THEN FILE_IO_DIR ELSE working_dir
    IN IF effective_dir = <<>> \/ ~isdir(dirs, files, effective_dir)
       THEN ToolError(dirs, files, {})
       ELSE IF command = "" THEN ToolError(dirs, files, {})
       ELSE IF command \in BlockedCommands THEN ToolError(dirs, files, {})
       ELSE ToolOk(dirs, files, {Touch("cwd", KernelResolve(dirs, files, effective_dir))})

\* the file names create_python_project scaffolds
ProjectFiles == <<"main_window.py", ".gitignore", "requirements.txt">>

\* the versions create_python_project accepts
allowed_versions == {"3.10", "3.11", "3.12", "3.13", "3.14"}

\* the loop over files_to_create: save_file(f"{project_name}/{name}") for
\* each name in order, stopping at the first error
RECURSIVE ScaffoldFiles(_, _, _, _, _)
ScaffoldFiles(dirs, files, touched, project_name, i) ==
    IF i > Len(ProjectFiles) THEN ToolOk(dirs, files, touched)
    ELSE Sequenced({ IF r.ret = "error"
                     THEN ToolError(r.dirs, r.files, touched \cup r.touched)
                     ELSE ScaffoldFiles(r.dirs, r.files, touched \cup r.touched,
                                        project_name, i + 1)
                     : r \in {save_file(dirs, files, project_name \o <<sep, ProjectFiles[i]>>)} })

\* project_tools.create_python_project(project_name, python_version, create_venv):
\* step1 is create_directory, step2 the scaffolding loop, venv the uv command
create_python_project(dirs, files, project_name, python_version, create_venv) ==
    Sequenced({
        IF step1.ret = "error" THEN step1
        ELSE Sequenced({
            IF step2.ret = "error" THEN step2
            ELSE IF ~create_venv THEN step2
            ELSE IF python_version \notin allowed_versions
                 THEN ToolError(step2.dirs, step2.files, step2.touched)
            ELSE Sequenced({ ToolOk(venv.dirs, venv.files, step2.touched \cup venv.touched)
                             : venv \in {execute_shell_command(step2.dirs, step2.files, "uv",
                                                               join(FILE_IO_DIR, project_name))} })
            : step2 \in {ScaffoldFiles(step1.dirs, step1.files, step1.touched, project_name, 1)} })
        : step1 \in {create_directory(dirs, files, project_name)} })

\* the paths handed to the filesystem tools
MaxToolComps == 2
ToolPaths == { JoinSep(q) : q \in SegSeqs(MaxToolComps) }
ToolDests == Segments
Commands  == {"", "ls", "rm"}
Versions  == {"3.11", "2.7"}

InitTools ==
    /\ ft_name = "idle"
    /\ ft_args = <<>>
    /\ ft_ret = "ok"
    /\ ft_touched = {}

\* the state change of one tool invocation; a behaviour holds one invocation
\* (ft_name = "idle" before it)
Invoke(name, args, r) ==
    /\ ft_name' = name
    /\ ft_args' = args
    /\ ft_ret' = r.ret
    /\ ft_touched' = r.touched
    /\ fs_dirs' = r.dirs
    /\ fs_files' = r.files
    /\ UNCHANGED <<FILE_IO_DIR, link_target, sbVars, exVars, rtVars, restVars>>

SaveFile ==
    /\ ft_name = "idle"
    /\ \E p \in ToolPaths : \E r \in {save_file(fs_dirs, fs_files, p)} :
        Invoke("file.save", <<p>>, r)
ReadFile ==
    /\ ft_name = "idle"
    /\ \E p \in ToolPaths : \E r \in {read_file(fs_dirs, fs_files, p)} :
        Invoke("file.read", <<p>>, r)
AppendToFile ==
    /\ ft_name = "idle"
    /\ \E p \in ToolPaths : \E r \in {append_to_file(fs_dirs, fs_files, p)} :
        Invoke("file.append", <<p>>, r)
DeleteFile ==
    /\ ft_name = "idle"
    /\ \E p \in ToolPaths : \E r \in {delete_file(fs_dirs, fs_files, p)} :
        Invoke("file.delete", <<p>>, r)
MoveItem ==
    /\ ft_name = "idle"
    /\ \E p \in ToolPaths, d \in ToolDests : \E r \in {move_item(fs_dirs, fs_files, p, d)} :
        Invoke("fs.move", <<p, d>>, r)
CreateDirectory ==
    /\ ft_name = "idle"
    /\ \E p \in ToolPaths : \E r \in {create_directory(fs_dirs, fs_files, p)} :
        Invoke("directory.create", <<p>>, r)
DeleteDirectory ==
    /\ ft_name = "idle"
    /\ \E p \in ToolPaths : \E r \in {delete_directory(fs_dirs, fs_files, p)} :
        Invoke("directory.delete", <<p>>, r)
ExecuteShellCommand ==
    /\ ft_name = "idle"
    /\ \E c \in Commands, w \in ToolPaths \cup {None} :
        \E r \in {execute_shell_command(fs_dirs, fs_files, c, w)} :
            Invoke("system.execute_command", <<c, w>>, r)
CreatePythonProject ==
    /\ ft_name = "idle"
    /\ \E p \in ToolPaths, v \in Versions, venv \in BOOLEAN :
        \E r \in {create_python_project(fs_dirs, fs_files, p, v, venv)} :
            Invoke("project.create_python", <<p, v, venv>>, r)

\* ------------------------------------------------------------------------
\* Tool invoker: tools/tool_executor.py
\* ------------------------------------------------------------------------
\* A Python value is a sequence of tokens whose first token is its type:
\* <<"str", ...>> is a str with the given content, <<"dict", id>> a value
\* json.dumps can serialise, <<"set", id>> one it cannot (TypeError) and
\* <<"cyclic", id>> a self-referencing list (ValueError).

\* parameters of the registered callables: time_tools.get_current_datetime(),
\* file_tools.read_file(path), system_tools.execute_shell_command(command,
\* timeout=60, working_dir=None)
ToolSignatures ==
    [ n \in {"time.current_datetime", "file.read", "system.execute_command"} |->
        CASE n = "time.current_datetime"  -> [required |-> {}, optional |-> {}]
          [] n = "file.read"              -> [required |-> {"path"}, optional |-> {}]
          [] n = "system.execute_command" -> [required |-> {"command"},
                                              optional |-> {"timeout", "working_dir"}] ]

\* the exceptions `except Exception` catches, and those it does not
ExceptionClasses     == {"TypeError", "ValueError", "RuntimeError"}
BaseExceptionClasses == {"SystemExit", "KeyboardInterrupt"}

\* what a tool body does: return a value or raise
Behaviours ==
    { [exc |-> "none", ret |-> v] :
        v \in { <<"str", "text">>, <<"str">>, <<"dict", "d">>, <<"set", "s">>, <<"cyclic", "c">> } }
    \cup { [exc |-> e, ret |-> None] : e \in ExceptionClasses \cup BaseExceptionClasses }

\* isinstance(v, str)
is_str(v) == v[1] = "str"

\* json.dumps(v): the text, or the exception it raises
json_dumps(v) ==
    IF v[1] = "dict" \/ v[1] = "str" THEN [exc |-> "none", ret |-> <<"str", "json">> \o v]
    ELSE IF v[1] = "cyclic" THEN [exc |-> "ValueError", ret |-> None]
    ELSE [exc |-> "TypeError", ret |-> None]

\* json.dumps({"error": message})
error_payload(message) == <<"str", "json", "dict", "error">> \o message

NotFoundPayload(tool_name) ==
    error_payload(<<"Tool", tool_name, "not found in the current context.">>)
InvalidArgumentsPayload(tool_name) ==
    error_payload(<<"Invalid arguments for tool", tool_name>>)
UnexpectedErrorPayload(tool_name) ==
    error_payload(<<"An unexpected error occurred in", tool_name>>)

\* tool_function(**arguments) binds: arguments is a mapping whose keys are
\* parameters of the callable and include every parameter without a default
Binds(sig, arguments) ==
    /\ arguments.is_mapping
    /\ sig.required \subseteq arguments.keys
    /\ arguments.keys \subseteq sig.required \cup sig.optional

\* result = tool_function(**arguments)
CallTool(sig, arguments, behaviour) ==
    IF ~Binds(sig, arguments) THEN [exc |-> "TypeError", ret |-> None]
    ELSE behaviour

\* lines 21-27: the body of the try block
TryBlock(sig, arguments, behaviour) ==
    LET result == CallTool(sig, arguments, behaviour)
    IN IF result.exc # "none" THEN result
       ELSE IF ~is_str(result.ret) THEN json_dumps(result.ret)
       ELSE result

\* execute_tool with the membership test left out: tool_mapping[tool_name]
\* raises KeyError for an unregistered name
execute_tool_no_membership_test(tool_name, arguments, tool_mapping, behaviour) ==
    IF tool_name \notin tool_mapping
    THEN [raised |-> "KeyError", value |-> None, invoked |-> {}]
    ELSE
      LET t == TryBlock(ToolSignatures[tool_name], arguments, behaviour)
      IN IF t.exc = "none"
         THEN [raised |-> "none", value |-> t.ret, invoked |-> {tool_name}]
         ELSE IF t.exc = "TypeError"
         THEN [raised |-> "none", value |-> InvalidArgumentsPayload(tool_name),
               invoked |-> {tool_name}]
         ELSE IF t.exc \in ExceptionClasses
         THEN [raised |-> "none", value |-> UnexpectedErrorPayload(tool_name),
               invoked |-> {tool_name}]
         ELSE [raised |-> t.exc, value |-> None, invoked |-> {tool_name}]

\* execute_tool(tool_name, arguments, tool_mapping); tool_mapping is given by
\* the set of names it registers, behaviour is what the callable does
execute_tool(tool_name, arguments, tool_mapping, behaviour) ==
    IF tool_name \notin tool_mapping
    THEN [raised |-> "none", value |-> NotFoundPayload(tool_name), invoked |-> {}]
    ELSE
      LET t == TryBlock(ToolSignatures[tool_name], arguments, behaviour)
      IN IF t.exc = "none"
         THEN [raised |-> "none", value |-> t.ret, invoked |-> {tool_name}]
         ELSE IF t.exc = "TypeError"
         THEN [raised |-> "none", value |-> InvalidArgumentsPayload(tool_name),
               invoked |-> {tool_name}]
         ELSE IF t.exc \in ExceptionClasses
         THEN [raised |-> "none", value |-> UnexpectedErrorPayload(tool_name),
               invoked |-> {tool_name}]
         ELSE [raised |-> t.exc, value |-> None, invoked |-> {tool_name}]

\* the inputs of execute_tool
RequestedNames == DOMAIN ToolSignatures \cup {"ghost.tool"}
ArgumentKeys   == {"path", "command", "timeout", "bogus"}
ArgumentValues ==
    { [is_mapping |-> TRUE, keys |-> k] : k \in SUBSET ArgumentKeys }
    \cup { [is_mapping |-> FALSE, keys |-> {}] }

InitExec ==
    /\ ex_tool_name = "idle"
    /\ ex_arguments = [is_mapping |-> TRUE, keys |-> {}]
    /\ ex_mapping = {}
    /\ ex_behaviour = [exc |-> "none", ret |-> None]
    /\ ex_out = [raised |-> "none", value |-> None]
    /\ ex_invoked = {}

\* one call of execute_tool; the function keeps no state between calls
ExecuteTool ==
    \E n \in RequestedNames, a \in ArgumentValues,
       m \in SUBSET DOMAIN ToolSignatures, b \in Behaviours :
        LET r == execute_tool(n, a, m, b)
        IN /\ ex_tool_name = "idle"
           /\ ex_tool_name' = n
           /\ ex_arguments' = a
           /\ ex_mapping' = m
           /\ ex_behaviour' = b
           /\ ex_out' = [raised |-> r.raised, value |-> r.value]
           /\ ex_invoked' = r.invoked
           /\ UNCHANGED <<fsVars, sbVars, toolVars, rtVars, restVars>>

\* ------------------------------------------------------------------------
\* Orchestration: api/openai_bridge.py over api/toolserver_client.py
\* ------------------------------------------------------------------------
\* The language model and the Tool Server are outside the repository: what
\* they answer, and whether a request to them raises, is chosen freely.

\* the largest number of tool calls in one model response
MaxCalls == 2

\* all sequences over S of length at most n
SeqsUpTo(S, n) == UNION { [1..k -> S] : k \in 0..n }

EmptyStr == <<"str">>
EmptyDict == <<"dict">>

\* x or ""
or_empty(x) == IF x = None THEN EmptyStr ELSE x

\* json.loads(text): texts made by json.dumps parse back to their value
json_loads(text) ==
    IF Len(text) >= 3 /\ text[1] = "str" /\ text[2] = "json"
    THEN [exc |-> "none", ret |-> Drop(text, 3)]
    ELSE [exc |-> "JSONDecodeError", ret |-> None]

\* a tool_calls value of the SDK: None, or the list of its items
NoToolCalls == [is_none |-> TRUE, items |-> <<>>]
ToolCallList(items) == [is_none |-> FALSE, items |-> items]

\* the tool calls a model response may hold: id, function name and the
\* arguments text (JSON, not JSON, or None)
ToolCallPool ==
    { [id |-> "call_1", function |-> [name |-> "f", arguments |-> <<"str", "json", "dict", "a">>]],
      [id |-> "call_2", function |-> [name |-> "g", arguments |-> <<"str", "oops">>]],
      [id |-> "call_3", function |-> [name |-> "f", arguments |-> None]] }

\* _tool_calls_as_message_dicts(tool_calls_obj)
_tool_calls_as_message_dicts(tool_calls_obj) ==
    [ i \in 1..Len(tool_calls_obj.items) |->
        [ id |-> tool_calls_obj.items[i].id,
          type |-> "function",
          function |-> [ name |-> tool_calls_obj.items[i].function.name,
                         arguments |-> tool_calls_obj.items[i].function.arguments ] ] ]

\* _safe_parse_arguments(arg_str)
_safe_parse_arguments(arg_str) ==
    IF arg_str = None \/ arg_str = EmptyStr THEN EmptyDict
    ELSE IF json_loads(arg_str).exc = "none" THEN json_loads(arg_str).ret
    ELSE <<"dict", "_raw_arguments">> \o arg_str

\* OpenAIWithToolServer._prepend_system(messages)
_prepend_system(self, messages) ==
    IF self.system_prompt # None /\ self.system_prompt # EmptyStr
    THEN <<[role |-> "system", content |-> self.system_prompt]>> \o messages
    ELSE messages

\* the value of an omitted tools parameter
NotGiven == <<"NOT_GIVEN">>

\* OpenAIWithToolServer._first_call(messages, tools): the request it sends
_first_call(messages, tools) ==
    [ call |-> "first", messages |-> messages, tools |-> tools ]

\* OpenAIWithToolServer._final_call(messages): the request it sends
_final_call(messages) ==
    [ call |-> "final", messages |-> messages, tools |-> NotGiven ]

\* not getattr(first_msg, "tool_calls", None)
no_tool_calls(first_msg) ==
    first_msg.tool_calls.is_none \/ first_msg.tool_calls.items = <<>>

\* the branch without tool calls returning the phase of the other branch
no_tool_calls_return_wrong_phase(first_msg) ==
    [ text |-> or_empty(first_msg.content), phase |-> "tool_calls_executed" ]
\* the return of the branch without tool calls
no_tool_calls_return(first_msg) ==
    [ text |-> or_empty(first_msg.content), phase |-> "no_tool_calls" ]

\* assistant_msg_for_log
assistant_msg_for_log(first_msg) ==
    [ role |-> "assistant",
      content |-> first_msg.content,
      tool_calls |-> _tool_calls_as_message_dicts(first_msg.tool_calls) ]

\* a working conversation that leaves the assistant turn out
msgs_with_tools_without_assistant(msgs, first_msg) == msgs
\* msgs_with_tools = msgs + [assistant_msg_for_log]
msgs_with_tools(msgs, first_msg) == Append(msgs, assistant_msg_for_log(first_msg))

\* whether msgs_with_tools is the list object the caller passed: msgs is
\* that object when there is no system prompt, but msgs + [...] builds a new
\* list, so the appends of the tool phase never reach the caller's list
msgs_with_tools_extends_msgs(self) ==
    self.system_prompt = None \/ self.system_prompt = EmptyStr
msgs_with_tools_is_messages(self) == FALSE

\* the caller's list once the working conversation has become w
messages_after(self, messages, w) ==
    IF msgs_with_tools_is_messages(self) THEN w ELSE messages

\* where run_one_turn stands once the final response is in: it returns,
\* whatever the response asks for
after_final_call_asks_again(final_msg) ==
    IF no_tool_calls(final_msg) THEN "done" ELSE "first_call"
after_final_call(final_msg) == "done"

\* calls_payload
calls_payload(first_msg) ==
    [ i \in 1..Len(first_msg.tool_calls.items) |->
        [ function |-> first_msg.tool_calls.items[i].function.name,
          arguments |-> _safe_parse_arguments(first_msg.tool_calls.items[i].function.arguments),
          tool_call_id |-> first_msg.tool_calls.items[i].id ] ]

\* the return after the final call
tool_calls_executed_return(final_msg) ==
    [ text |-> or_empty(final_msg.content), phase |-> "tool_calls_executed" ]

\* the dict exec_res of /execute as a Python value
exec_res_dict(r) ==
    <<"dict", "ok", IF r.ok THEN "true" ELSE "false", "content">> \o r.content
        \o <<"error">> \o r.error

\* one entry of the results of /execute/batch as a Python value
batch_result_dict(r) ==
    <<"dict", "tool_call_id", r.tool_call_id, "function", r.function>>
        \o Tail(exec_res_dict(r))

\* the tool-role turn appended for an entry r of the batch results
batch_tool_turn(r) ==
    [ role |-> "tool",
      tool_call_id |-> r.tool_call_id,
      name |-> r.function,
      content |-> IF r.ok THEN r.content ELSE json_dumps(batch_result_dict(r)).ret ]

\* the tool-role turn appended for the result exec_res of one call
sequential_tool_turn(call, exec_res) ==
    [ role |-> "tool",
      tool_call_id |-> call.tool_call_id,
      name |-> call.function,
      content |-> IF exec_res.ok THEN exec_res.content
                  ELSE json_dumps(exec_res_dict(exec_res)).ret ]

\* the entry the sequential loop appends to tool_results
sequential_tool_result(call, exec_res) ==
    [ tool_call_id |-> call.tool_call_id,
      function |-> call.function,
      ok |-> exec_res.ok,
      content |-> exec_res.content,
      error |-> exec_res.error ]

\* ---- ToolServerClient ----

\* the default of the k_tools argument
default_k_tools == 8

\* ToolServerClient.discover: the request it posts
discover(conversation_id, messages, k_tools) ==
    [ path |-> "/discover", conversation_id |-> conversation_id,
      messages |-> messages, k_tools |-> k_tools ]

\* ToolServerClient.execute: the request it posts
execute(conversation_id, function, arguments, tool_call_id) ==
    [ path |-> "/execute", conversation_id |-> conversation_id,
      function |-> function, arguments |-> arguments, tool_call_id |-> tool_call_id ]

\* ToolServerClient.execute_batch: the request it posts
execute_batch(conversation_id, calls, parallel) ==
    [ path |-> "/execute/batch", conversation_id |-> conversation_id,
      calls |-> calls, parallel |-> parallel ]

\* a cache test that does not look at force_refresh
cache_hit_ignoring_force_refresh(cache, now, conversation_id, force_refresh) ==
    /\ conversation_id \in DOMAIN cache
    /\ cache[conversation_id].expires > now

\* not force_refresh and cached and cached[0] > now
cache_hit(cache, now, conversation_id, force_refresh) ==
    /\ ~force_refresh
    /\ conversation_id \in DOMAIN cache
    /\ cache[conversation_id].expires > now

\* int(resp.get("cache_ttl_sec", 0))
ttl_of_at_least_one(resp) ==
    IF "cache_ttl_sec" \in DOMAIN resp /\ resp.cache_ttl_sec > 0 THEN resp.cache_ttl_sec ELSE 1
ttl_of(resp) ==
    IF "cache_ttl_sec" \in DOMAIN resp THEN resp.cache_ttl_sec ELSE 0

\* a cache that keeps one entry for all conversations
build_openai_tools_one_entry(cache, now, conversation_id, force_refresh, resp) ==
    IF cache_hit(cache, now, "shared", force_refresh)
    THEN [ tools |-> cache["shared"].tools,
           alias_map |-> cache["shared"].alias_map,
           cache |-> cache,
           discovered |-> FALSE ]
    ELSE [ tools |-> resp.tools,
           alias_map |-> resp.alias_map,
           cache |-> [ c \in {"shared"} |->
                         [ expires |-> now + ttl_of(resp),
                           tools |-> resp.tools, alias_map |-> resp.alias_map ] ],
           discovered |-> TRUE ]

\* ToolServerClient.build_openai_tools, resp being what /discover answers
\* when it is asked
build_openai_tools(cache, now, conversation_id, force_refresh, resp) ==
    IF cache_hit(cache, now, conversation_id, force_refresh)
    THEN [ tools |-> cache[conversation_id].tools,
           alias_map |-> cache[conversation_id].alias_map,
           cache |-> cache,
           discovered |-> FALSE ]
    ELSE [ tools |-> resp.tools,
           alias_map |-> resp.alias_map,
           cache |-> [ c \in DOMAIN cache \cup {conversation_id} |->
                         IF c = conversation_id
                         THEN [ expires |-> now + ttl_of(resp),
                                tools |-> resp.tools, alias_map |-> resp.alias_map ]
                         ELSE cache[c] ],
           discovered |-> TRUE ]

\* ---- what the collaborators answer ----

\* answers of /discover
DiscoverResponses ==
    { [ tools |-> <<"f", "g">>, alias_map |-> <<"f=x.f", "g=x.g">>, cache_ttl_sec |-> 300 ],
      [ tools |-> <<>>, alias_map |-> <<>>, cache_ttl_sec |-> 0 ] }

\* the caller's conversations
ConversationIds == {"A"}
Conversations ==
    { << [role |-> "user", content |-> <<"str", "hi">>] >>,
      << [role |-> "user", content |-> <<"str", "hi">>],
         [role |-> "assistant", content |-> <<"str", "hello">>],
         [role |-> "user", content |-> <<"str", "more">>] >> }

\* the tool_calls of a model message
ToolCallValues ==
    {NoToolCalls} \cup { ToolCallList(q) : q \in SeqsUpTo(ToolCallPool, MaxCalls) }

\* first_msg and final_msg before the model has answered
NoMessage == [content |-> <<"unset">>, tool_calls |-> NoToolCalls]

\* the messages a model response may carry
ModelContents == { None, <<"str", "answer">> }
FirstMessages ==
    { [content |-> c, tool_calls |-> t] : c \in ModelContents, t \in ToolCallValues }
FinalMessages ==
    { [content |-> c, tool_calls |-> NoToolCalls] : c \in ModelContents }
    \cup { [content |-> None,
            tool_calls |-> ToolCallList(<<CHOOSE tc \in ToolCallPool : tc.id = "call_1">>)] }

\* answers of /execute
ExecResults ==
    { [ok |-> TRUE, content |-> <<"str", "out">>, error |-> None],
      [ok |-> FALSE, content |-> None, error |-> <<"str", "failed">>] }

\* entries that /execute/batch may return for the calls it was sent
BatchEntries(calls) ==
    { [ tool_call_id |-> calls[i].tool_call_id, function |-> calls[i].function,
        ok |-> r.ok, content |-> r.content, error |-> r.error ]
      : i \in 1..Len(calls), r \in ExecResults }

\* a results entry that is not a JSON object
NotADict == [ json |-> <<"str", "oops">> ]

\* answers of /execute/batch: any number of entries in any order, all
\* objects (malformed FALSE) or followed by an entry that is not one
BatchResponses(calls) ==
    { [ results |-> q, malformed |-> FALSE ] : q \in SeqsUpTo(BatchEntries(calls), Len(calls)) }
    \cup { [ results |-> q, malformed |-> TRUE ]
           : q \in SeqsUpTo(BatchEntries(calls), Len(calls) - 1) }

\* ---- run_one_turn, step by step ----

\* ---- build_openai_tools, call after call ----

\* the largest reading of the clock
MaxClock == 3

\* the conversations that share one client
CacheConversationIds == {"A", "B"}

\* answers of /discover to a request for conversation c: the tools carry
\* the conversation they were selected for, the TTL is zero or positive
DiscoverAnswers(c) ==
    { [ tools |-> <<c, v>>, alias_map |-> <<c, "alias">>, cache_ttl_sec |-> ttl ]
      : v \in {"v1", "v2"}, ttl \in {0, 2} }
    \cup { [ tools |-> <<c, v>>, alias_map |-> <<c, "alias">> ] : v \in {"v1", "v2"} }

\* the cache_ttl_sec an answer of /discover carries, if it carries one
carried_ttl(resp) ==
    IF "cache_ttl_sec" \in DOMAIN resp
    THEN [given |-> TRUE, value |-> resp.cache_ttl_sec]
    ELSE [given |-> FALSE, value |-> 0]

\* no build_openai_tools call made
NoBuildCall ==
    [ made |-> FALSE, conversation_id |-> "none", force_refresh |-> FALSE, now |-> 0,
      discovered |-> FALSE, raised |-> "none", tools |-> <<>>, alias_map |-> <<>> ]

InitCacheCalls ==
    /\ bt_call = NoBuildCall
    /\ bt_before = <<>>
    /\ bt_ttl = <<>>
    /\ bt_ttl_before = <<>>

\* build_openai_tools returns, from the cache or from what /discover answers
BuildOpenAITools ==
    /\ \E c \in CacheConversationIds, force_refresh \in BOOLEAN :
        \E resp \in DiscoverAnswers(c) :
            \E b \in {build_openai_tools(ts_cache, ts_now, c, force_refresh, resp)} :
                /\ ts_cache' = b.cache
                /\ bt_call' = [ made |-> TRUE, conversation_id |-> c,
                                force_refresh |-> force_refresh, now |-> ts_now,
                                discovered |-> b.discovered, raised |-> "none",
                                tools |-> b.tools, alias_map |-> b.alias_map ]
                /\ bt_ttl' = IF b.discovered
                             THEN [ x \in DOMAIN bt_ttl \cup {c} |->
                                      IF x = c THEN carried_ttl(resp) ELSE bt_ttl[x] ]
                             ELSE bt_ttl
    /\ bt_before' = ts_cache
    /\ bt_ttl_before' = bt_ttl
    /\ UNCHANGED <<ts_now, turnVars, fsVars, sbVars, toolVars, exVars,
                   selVars, retryVars, regVars, chatVars>>

\* build_openai_tools asks /discover and _post raises ToolServerError: the
\* cache is left as it was
BuildOpenAIToolsRaises ==
    /\ \E c \in CacheConversationIds, force_refresh \in BOOLEAN :
        /\ ~cache_hit(ts_cache, ts_now, c, force_refresh)
        /\ bt_call' = [ made |-> TRUE, conversation_id |-> c,
                        force_refresh |-> force_refresh, now |-> ts_now,
                        discovered |-> TRUE, raised |-> "ToolServerError",
                        tools |-> <<>>, alias_map |-> <<>> ]
    /\ bt_before' = ts_cache
    /\ bt_ttl_before' = bt_ttl
    /\ UNCHANGED <<bt_ttl, ts_cache, ts_now, turnVars, fsVars, sbVars, toolVars, exVars,
                   selVars, retryVars, regVars, chatVars>>

\* time passes between calls
Tick ==
    /\ ts_now < MaxClock
    /\ ts_now' = ts_now + 1
    /\ UNCHANGED <<ts_cache, cacheVars, turnVars, fsVars, sbVars, toolVars, exVars,
                   selVars, retryVars, regVars, chatVars>>

\* ---- tools.get_tools ----

\* the number of names a collection query answers at most
MaxRag == 2

CORE_TOOLS_TO_ALWAYS_INCLUDE ==
    << "time.current_datetime", "state.set", "state.get", "state.list_keys",
       "interaction.human_ask" >>

\* the elements of a sequence
Range(q) == { q[i] : i \in 1..Len(q) }

\* the names registered by the get_mapping() of the library modules
TOOL_MAPPING ==
    { "file.read", "human.ask", "state.set", "state.get", "state.append_to_list",
      "state.list_keys", "time.current_datetime", "web.search" }

\* the definitions the JSON files may hold, in the order of tool_modules: the
\* names of the Python mappings, the names of the core list, or the latter
\* with the file of time_tools missing
DefinitionSets ==
    { << "file.read", "human.ask", "state.set", "state.get", "state.list_keys",
         "time.current_datetime", "web.search" >>,
      << "file.read", "interaction.human_ask", "state.set", "state.get", "state.list_keys",
         "time.current_datetime", "web.search" >>,
      << "file.read", "interaction.human_ask", "state.set", "state.get", "state.list_keys",
         "web.search" >> }

\* the conversations of get_tools, by the roles of their messages
RoleSequences == { <<>>, <<"assistant">>, <<"user">>, <<"user", "assistant">> }

\* sequences without repetition over S of length at most n
DistinctSeqs(S, n) ==
    { q \in UNION { [1..k -> S] : k \in 0..n } :
        \A i, j \in 1..Len(q) : i # j => q[i] # q[j] }

\* what the query of the collection answers: EmbedServError, or the
\* tool_name of every metadata in rank order
QueryAnswers ==
    { [exc |-> "EmbedServError", names |-> <<>>] }
    \cup { [exc |-> "none", names |-> q]
           : q \in DistinctSeqs(TOOL_MAPPING \cup Range(CORE_TOOLS_TO_ALWAYS_INCLUDE), MaxRag) }

\* [t for t in definitions if t['function']['name'] in names]
DefinitionsNamed(definitions, names) ==
    SelectSeq(definitions, LAMBDA t : t \in names)

\* the loop over CORE_TOOLS_TO_ALWAYS_INCLUDE from position i on: a core
\* name the query did not give is appended when it has a definition, and
\* TOOL_MAPPING[tool_name] raises KeyError for a name that is not registered
RECURSIVE AddCoreTools(_, _, _, _, _)
AddCoreTools(definitions, rag_tool_names, selected_tools, selected_mapping, i) ==
    IF i > Len(CORE_TOOLS_TO_ALWAYS_INCLUDE)
    THEN [raised |-> "none", tools |-> selected_tools, mapping |-> selected_mapping]
    ELSE LET tool_name == CORE_TOOLS_TO_ALWAYS_INCLUDE[i]
         IN IF tool_name \in Range(rag_tool_names) \/ tool_name \notin Range(definitions)
            THEN AddCoreTools(definitions, rag_tool_names, selected_tools,
                              selected_mapping, i + 1)
            ELSE IF tool_name \notin TOOL_MAPPING
            THEN [raised |-> "KeyError", tools |-> <<>>, mapping |-> {}]
            ELSE AddCoreTools(definitions, rag_tool_names, Append(selected_tools, tool_name),
                              selected_mapping \cup {tool_name}, i + 1)

\* tools.get_tools(conversation, turns): the tool list and the mapping it
\* returns, or the exception it raises
get_tools(definitions, client, conversation, answer) ==
    IF ~client
    THEN [ raised |-> "none",
           tools |-> DefinitionsNamed(definitions, Range(CORE_TOOLS_TO_ALWAYS_INCLUDE)),
           mapping |-> Range(CORE_TOOLS_TO_ALWAYS_INCLUDE) \cap TOOL_MAPPING ]
    ELSE IF "user" \notin Range(conversation)
    THEN [ raised |-> "none", tools |-> <<>>, mapping |-> {} ]
    ELSE IF answer.exc = "EmbedServError"
    THEN AddCoreTools(definitions, <<>>, <<>>, {}, 1)
    ELSE IF ~(Range(answer.names) \subseteq TOOL_MAPPING)
    THEN [ raised |-> "KeyError", tools |-> <<>>, mapping |-> {} ]
    ELSE AddCoreTools(definitions, answer.names,
                      DefinitionsNamed(definitions, Range(answer.names)),
                      Range(answer.names), 1)

\* get_tools not called
NoSelection == [called |-> FALSE, raised |-> "none", tools |-> <<>>, mapping |-> {}]

InitSelectorCalls ==
    /\ gt_conversation = <<>>
    /\ gt_query = [exc |-> "none", names |-> <<>>]
    /\ gt_out = NoSelection

\* the module as imported: the definitions loaded, the embedding service
\* reachable or not
InitSelector ==
    /\ ALL_TOOL_DEFINITIONS \in DefinitionSets
    /\ embedding_client \in BOOLEAN
    /\ InitSelectorCalls

\* the selector loaded and never called
InitSelectorUnused ==
    /\ ALL_TOOL_DEFINITIONS = <<>>
    /\ embedding_client = FALSE
    /\ InitSelectorCalls

\* one call of get_tools
GetTools ==
    /\ ~gt_out.called
    /\ \E conversation \in RoleSequences, answer \in QueryAnswers :
        \E r \in {get_tools(ALL_TOOL_DEFINITIONS, embedding_client, conversation, answer)} :
            /\ gt_conversation' = conversation
            /\ gt_query' = answer
            /\ gt_out' = [ called |-> TRUE, raised |-> r.raised,
                           tools |-> r.tools, mapping |-> r.mapping ]
    /\ UNCHANGED <<ALL_TOOL_DEFINITIONS, embedding_client, cacheVars, rtVars,
                   fsVars, sbVars, toolVars, exVars, retryVars, regVars, chatVars>>

\* ---- llm_api._with_retries ----

\* the largest max_retries a caller passes
MaxRetries == 3

\* base_delay, in seconds
BaseDelays == {1, 2}

\* the status codes of the responses raise_for_status() rejects
Statuses == {404, 429, 503}

\* the Retry-After header of a response: absent, a number of seconds, a date
RetryAfterHeaders ==
    { [present |-> FALSE, text |-> ""], [present |-> TRUE, text |-> "7"],
      [present |-> TRUE, text |-> "Wed, 21 Oct 2026 07:28:00 GMT"] }

\* float(text): the number a numeric text denotes, ValueError otherwise
float_(text) ==
    IF text = "7" THEN [raised |-> FALSE, value |-> 7]
    ELSE [raised |-> TRUE, value |-> 0]

\* no exception
NoExc ==
    [ kind |-> "none", has_response |-> FALSE, status_code |-> 0,
      headers |-> [present |-> FALSE, text |-> ""] ]

\* func() returned the decoded body
FuncOk == [NoExc EXCEPT !.kind = "ok"]

\* requests.HTTPError: raised by raise_for_status() with the response, or
\* by other code without one
HTTPErrors ==
    { [kind |-> "HTTPError", has_response |-> TRUE, status_code |-> st, headers |-> h]
      : st \in Statuses, h \in RetryAfterHeaders }
    \cup { [NoExc EXCEPT !.kind = "HTTPError"] }

\* any other exception of func(): ConnectionError, Timeout, ValueError of json()
OtherException == [NoExc EXCEPT !.kind = "Exception"]

\* bool(resp) of a requests.Response: Response.__bool__ returns self.ok,
\* which is False for a status code of 400 and above
ResponseTruthy(e) == e.has_response /\ e.status_code < 400

\* _parse_retry_after(e.response): the seconds of the header, or None
_parse_retry_after(e) ==
    IF ~ResponseTruthy(e) THEN [is_none |-> TRUE, value |-> 0]
    ELSE IF e.headers.present /\ e.headers.text # "" /\ ~float_(e.headers.text).raised
    THEN [is_none |-> FALSE, value |-> float_(e.headers.text).value]
    ELSE [is_none |-> TRUE, value |-> 0]

\* status == 429 or (status and 500 <= status < 600)
retryable_any_http_status(e) == e.has_response
retryable(e) ==
    /\ e.has_response
    /\ \/ e.status_code = 429
       \/ (e.status_code # 0 /\ 500 =< e.status_code /\ e.status_code < 600)

\* wait = _parse_retry_after(e.response) or delay
wait_of(e, delay) ==
    LET ra == _parse_retry_after(e)
    IN IF ra.is_none \/ ra.value = 0 THEN delay ELSE ra.value

InitRetryCalls ==
    /\ wr_pc = "loop"
    /\ wr_attempt = 0
    /\ wr_delay = wr_base_delay
    /\ wr_last_exc = NoExc
    /\ wr_outcomes = <<>>
    /\ wr_waits = <<>>
    /\ wr_raised = NoExc
    /\ wr_signal = "none"

\* _with_retries entered by a worker's query
InitRetry ==
    /\ wr_max_retries \in 0..MaxRetries
    /\ wr_base_delay \in BaseDelays
    /\ InitRetryCalls

InitRetryUnused ==
    /\ wr_max_retries = 0
    /\ wr_base_delay = 1
    /\ InitRetryCalls

\* the pc after an iteration that did not leave the loop
after_iteration(attempt, max_retries) ==
    IF attempt < max_retries + 1 THEN "loop" ELSE "after_loop"

retryOthers == <<fsVars, sbVars, toolVars, exVars, rtVars, cacheVars, selVars, regVars,
                 chatVars>>

\* an iteration whose func() returns
FuncReturns ==
    /\ wr_pc = "loop"
    /\ wr_attempt' = wr_attempt + 1
    /\ wr_outcomes' = Append(wr_outcomes, FuncOk)
    /\ wr_pc' = "returned"
    /\ UNCHANGED <<wr_max_retries, wr_base_delay, wr_delay, wr_last_exc, wr_waits,
                   wr_raised, wr_signal, retryOthers>>

\* an iteration whose func() raises requests.HTTPError
FuncRaisesHTTPError ==
    /\ wr_pc = "loop"
    /\ \E e \in HTTPErrors :
        /\ wr_attempt' = wr_attempt + 1
        /\ wr_outcomes' = Append(wr_outcomes, e)
        /\ IF retryable(e)
           THEN /\ wr_waits' = Append(wr_waits, wait_of(e, wr_delay))
                /\ wr_delay' = wr_delay * 2
                /\ wr_last_exc' = e
                /\ wr_pc' = after_iteration(wr_attempt + 1, wr_max_retries)
                /\ UNCHANGED wr_raised
           ELSE /\ wr_raised' = e
                /\ wr_pc' = "raised"
                /\ UNCHANGED <<wr_waits, wr_delay, wr_last_exc>>
    /\ UNCHANGED <<wr_max_retries, wr_base_delay, wr_signal, retryOthers>>

\* an iteration whose func() raises another Exception: break
FuncRaisesException ==
    /\ wr_pc = "loop"
    /\ wr_attempt' = wr_attempt + 1
    /\ wr_outcomes' = Append(wr_outcomes, OtherException)
    /\ wr_last_exc' = OtherException
    /\ wr_pc' = "after_loop"
    /\ UNCHANGED <<wr_max_retries, wr_base_delay, wr_delay, wr_waits, wr_raised,
                   wr_signal, retryOthers>>

\* if last_exc: raise last_exc
AfterLoop ==
    /\ wr_pc = "after_loop"
    /\ IF wr_last_exc.kind # "none"
       THEN wr_raised' = wr_last_exc /\ wr_pc' = "raised"
       ELSE wr_raised' = wr_raised /\ wr_pc' = "returned"
    /\ UNCHANGED <<wr_max_retries, wr_base_delay, wr_attempt, wr_delay, wr_last_exc,
                   wr_outcomes, wr_waits, wr_signal, retryOthers>>

\* SendRemoteMessageWorker.run: the content is emitted, or the exception
\* of the query is caught and emitted as failed_llm_call
WorkerEmits ==
    /\ wr_pc \in {"returned", "raised"}
    /\ wr_signal = "none"
    /\ wr_signal' = IF wr_pc = "raised" THEN "failed_llm_call" ELSE "completed_llm_call"
    /\ UNCHANGED <<wr_max_retries, wr_base_delay, wr_pc, wr_attempt, wr_delay,
                   wr_last_exc, wr_outcomes, wr_waits, wr_raised, retryOthers>>

\* ---- tools._load_all_tools_from_modules ----

\* how often the aggregation is run
MaxRuns == 2

\* tool_modules, in order
tool_modules ==
    << "file_tools", "interaction_tools", "state_tools", "time_tools", "web_tools" >>

\* module.get_mapping(): the names a module registers
get_mapping(module) ==
    IF module = "file_tools" THEN {"file.read"}
    ELSE IF module = "interaction_tools" THEN {"human.ask"}
    ELSE IF module = "state_tools"
    THEN {"state.set", "state.get", "state.append_to_list", "state.list_keys"}
    ELSE IF module = "time_tools" THEN {"time.current_datetime"}
    ELSE {"web.search"}

\* the .json file of a module: missing, or the list of definitions it holds
NoJson == [exists |-> FALSE, definitions |-> <<>>]
JsonFilesOf(module) ==
    {NoJson} \cup
    { [exists |-> TRUE, definitions |-> d] :
        d \in IF module = "file_tools" THEN {<<"file.read">>}
              ELSE IF module = "interaction_tools"
              THEN {<<"human.ask">>, <<"interaction.human_ask">>}
              ELSE IF module = "state_tools"
              THEN {<<"state.set", "state.get", "state.list_keys">>}
              ELSE IF module = "time_tools" THEN {<<"time.current_datetime">>}
              ELSE {<<"web.search">>} }

\* the loop over tool_modules from position i on: TOOL_MAPPING.update and
\* ALL_TOOL_DEFINITIONS.extend on the two globals as they stand
RECURSIVE LoadModules(_, _, _, _)
LoadModules(json, definitions, mapping, i) ==
    IF i > Len(tool_modules)
    THEN [definitions |-> definitions, mapping |-> mapping]
    ELSE LoadModules(json,
                     IF json[tool_modules[i]].exists
                     THEN definitions \o json[tool_modules[i]].definitions
                     ELSE definitions,
                     mapping \cup get_mapping(tool_modules[i]),
                     i + 1)

\* { name: "Tool name: ..." for tool in ALL_TOOL_DEFINITIONS }
descriptions_of(definitions) ==
    [ name \in Range(definitions) |-> <<"Tool name", name>> ]

\* tools.py before initialize_tools: the globals empty
InitRegistryGlobals ==
    /\ reg_mapping = {}
    /\ TOOL_NAME_TO_DESCRIPTION = <<>>
    /\ reg_runs = 0
    /\ reg_first = [definitions |-> <<>>, mapping |-> {}, descriptions |-> <<>>]

\* the files of the library as installed
InitRegistry ==
    /\ reg_json \in { f \in [Range(tool_modules) -> UNION { JsonFilesOf(m) : m \in Range(tool_modules) }] :
                        \A m \in Range(tool_modules) : f[m] \in JsonFilesOf(m) }
    /\ InitRegistryGlobals

InitRegistryUnused ==
    /\ reg_json = [m \in Range(tool_modules) |-> NoJson]
    /\ InitRegistryGlobals

\* one run of _load_all_tools_from_modules (initialize_tools)
LoadAllTools ==
    /\ reg_runs < MaxRuns
    /\ \E r \in {LoadModules(reg_json, ALL_TOOL_DEFINITIONS, reg_mapping, 1)} :
        /\ ALL_TOOL_DEFINITIONS' = r.definitions
        /\ reg_mapping' = r.mapping
        /\ TOOL_NAME_TO_DESCRIPTION' = descriptions_of(r.definitions)
        /\ reg_first' = IF reg_runs = 0
                        THEN [ definitions |-> r.definitions, mapping |-> r.mapping,
                               descriptions |-> descriptions_of(r.definitions) ]
                        ELSE reg_first
    /\ reg_runs' = reg_runs + 1
    /\ UNCHANGED <<reg_json, embedding_client, gt_conversation, gt_query, gt_out,
                   cacheVars, retryVars, rtVars, fsVars, sbVars, toolVars, exVars, chatVars>>

\* ---- ui/tabs/chat_tab.py and core/conversation_manager.py ----

\* how many messages the user types or speaks
MaxTexts == 2

\* how many times the user acts on the conversation panel
MaxPanelActions == 2

\* the ids of the stored conversations and the one uuid4() gives next
StoredConvIds == {"c1", "c2"}
ConvIds == StoredConvIds \cup {"c3"}

\* the data of the selected model entry: none, a local model, a remote one
ModelDatas == {"none", "ollama", "remote"}

\* ChatTab and its ConversationManager as one value
ChatState ==
    [ inference_active |-> ct_inference_active, input_enabled |-> ct_input_enabled,
      stt_queue |-> ct_stt_queue, stt_mode |-> ct_stt_mode, model_data |-> ct_model_data,
      current_conv_id |-> ct_current_conv_id, index |-> ct_index, files |-> ct_files,
      provider_saved |-> ct_provider_saved, workers |-> ct_workers,
      persisted |-> ct_persisted ]

\* ConversationManager._read_payload: the messages of the file, none when
\* the file does not exist
_read_payload(s, conv_id) ==
    IF s.files[conv_id].exists THEN s.files[conv_id].messages ELSE <<>>

\* ConversationManager._write_payload
_write_payload(s, conv_id, messages) ==
    [s EXCEPT !.files[conv_id] = [exists |-> TRUE, messages |-> messages]]

\* ConversationManager._touch: an indexed conversation becomes the most recent
_touch(s, conv_id) ==
    IF conv_id \in Range(s.index)
    THEN [s EXCEPT !.index = <<conv_id>> \o SelectSeq(s.index, LAMBDA c : c # conv_id)]
    ELSE s

\* ConversationManager.set_system
set_system(s, conv_id) ==
    _touch(_write_payload(s, conv_id, _read_payload(s, conv_id)), conv_id)

\* ConversationManager.append_message
append_message(s, conv_id, role, text) ==
    LET t == _touch(_write_payload(s, conv_id,
                                   Append(_read_payload(s, conv_id), [role |-> role, text |-> text])),
                    conv_id)
    IN [t EXCEPT !.persisted = @ \cup {[text |-> text, role |-> role, conv |-> conv_id]}]

\* ChatTab.send_message(message)
send_message(s, message) ==
    IF s.model_data = "none" THEN s
    ELSE LET a == append_message(set_system(s, s.current_conv_id),
                                 s.current_conv_id, "user", message)
             b == [a EXCEPT !.input_enabled = FALSE, !.inference_active = TRUE]
         IN IF s.model_data = "ollama"
            THEN [b EXCEPT !.workers = @ \cup {[text |-> message, source |-> "ollama"]}]
            ELSE IF ~s.provider_saved
            THEN [b EXCEPT !.input_enabled = TRUE]
            ELSE [b EXCEPT !.workers = @ \cup {[text |-> message, source |-> "remote"]}]

\* ChatTab._maybe_send_next_queued
_maybe_send_next_queued(s) ==
    IF s.stt_mode # "Natural" THEN [s EXCEPT !.stt_queue = <<>>]
    ELSE IF s.inference_active THEN s
    ELSE IF s.stt_queue = <<>> THEN s
    ELSE send_message([s EXCEPT !.stt_queue = Tail(s.stt_queue)], Head(s.stt_queue))

\* ChatTab._on_llm_error
_on_llm_error(s) ==
    _maybe_send_next_queued([s EXCEPT !.input_enabled = TRUE, !.inference_active = FALSE])

\* ChatTab.got_llm_response, result answering the message text
got_llm_response(s, text) ==
    LET a == append_message(s, s.current_conv_id, "assistant", text)
    IN _maybe_send_next_queued([a EXCEPT !.input_enabled = TRUE, !.inference_active = FALSE])

\* ChatTab._on_stt_text(text, ok) with a text that is not empty
_on_stt_text(s, text, ok) ==
    IF ~ok THEN s
    ELSE IF s.stt_mode = "Natural"
    THEN IF s.inference_active
         THEN [s EXCEPT !.stt_queue = Append(@, text)]
         ELSE send_message(s, text)
    ELSE s

\* ChatTab._on_conv_selected
_on_conv_selected(s, conv_id) == [s EXCEPT !.current_conv_id = conv_id]

\* ConversationManager.create with the id uuid4() gives
create(s, cid) ==
    [s EXCEPT !.index = <<cid>> \o @,
              !.files[cid] = [exists |-> TRUE, messages |-> <<>>]]

\* ChatTab._on_new_conv
_on_new_conv(s, cid) ==
    IF _read_payload(s, s.current_conv_id) = <<>>
    THEN _touch(_write_payload(s, s.current_conv_id, <<>>), s.current_conv_id)
    ELSE [create(s, cid) EXCEPT !.current_conv_id = cid]

\* ChatTab._on_delete_conv, the question answered with Yes
_on_delete_conv(s, conv_id, cid) ==
    LET d == [s EXCEPT !.index = SelectSeq(@, LAMBDA c : c # conv_id),
                       !.files[conv_id] = [exists |-> FALSE, messages |-> <<>>]]
    IN IF d.index # <<>>
       THEN [d EXCEPT !.current_conv_id = d.index[1]]
       ELSE [create(d, cid) EXCEPT !.current_conv_id = cid]

\* the ids uuid4() may give: one never used
FreshIds(s) == { c \in ConvIds : c \notin Range(s.index) /\ ~s.files[c].exists }

\* the tab after a handler has run
Becomes(r) ==
    /\ ct_inference_active' = r.inference_active
    /\ ct_input_enabled' = r.input_enabled
    /\ ct_stt_queue' = r.stt_queue
    /\ ct_stt_mode' = r.stt_mode
    /\ ct_model_data' = r.model_data
    /\ ct_current_conv_id' = r.current_conv_id
    /\ ct_index' = r.index
    /\ ct_files' = r.files
    /\ ct_provider_saved' = r.provider_saved
    /\ ct_workers' = r.workers
    /\ ct_persisted' = r.persisted

chatOthers == <<fsVars, sbVars, toolVars, exVars, rtVars, cacheVars, selVars, retryVars, regVars>>

\* the tab constructed, the latest conversation loaded, nothing sent
InitChatIdle ==
    /\ ct_inference_active = FALSE
    /\ ct_input_enabled = TRUE
    /\ ct_stt_queue = <<>>
    /\ ct_current_conv_id = "c1"
    /\ ct_index = <<"c1", "c2">>
    /\ ct_files = [c \in ConvIds |-> [exists |-> c \in StoredConvIds, messages |-> <<>>]]
    /\ ct_workers = {}
    /\ ct_models_worker = "idle"
    /\ ct_texts = 0
    /\ ct_panel_actions = 0
    /\ ct_persisted = {}

InitChat ==
    /\ ct_stt_mode \in {"Natural", "Push to talk"}
    /\ ct_model_data \in ModelDatas
    /\ ct_provider_saved = TRUE
    /\ InitChatIdle

InitChatUnused ==
    /\ ct_stt_mode = "Off"
    /\ ct_model_data = "none"
    /\ ct_provider_saved = TRUE
    /\ InitChatIdle

\* Ctrl+Return in the input field, which emits only while it is enabled
TypedSend ==
    /\ ct_input_enabled
    /\ ct_texts < MaxTexts
    /\ ct_texts' = ct_texts + 1
    /\ \E r \in {send_message(ChatState, ct_texts + 1)} : Becomes(r)
    /\ UNCHANGED <<ct_models_worker, ct_panel_actions, chatOthers>>

\* a TranscribeWorker finishes
SttText ==
    /\ ct_texts < MaxTexts
    /\ ct_texts' = ct_texts + 1
    /\ \E ok \in BOOLEAN :
        \E r \in {_on_stt_text(ChatState, ct_texts + 1, ok)} : Becomes(r)
    /\ UNCHANGED <<ct_models_worker, ct_panel_actions, chatOthers>>

\* an LLM worker emits completed_llm_call
WorkerCompletes ==
    /\ \E w \in ct_workers :
        \E r \in {got_llm_response([ChatState EXCEPT !.workers = @ \ {w}], w.text)} : Becomes(r)
    /\ UNCHANGED <<ct_models_worker, ct_texts, ct_panel_actions, chatOthers>>

\* an LLM worker emits failed_llm_call
WorkerFails ==
    /\ \E w \in ct_workers :
        \E r \in {_on_llm_error([ChatState EXCEPT !.workers = @ \ {w}])} : Becomes(r)
    /\ UNCHANGED <<ct_models_worker, ct_texts, ct_panel_actions, chatOthers>>

\* _rebuild_model_selection starts the GetRemoteModelsWorker, once
RemoteModelsWorkerStarts ==
    /\ ct_models_worker = "idle"
    /\ ct_models_worker' = "running"
    /\ UNCHANGED <<ct_inference_active, ct_input_enabled, ct_stt_queue, ct_stt_mode,
                   ct_model_data, ct_current_conv_id, ct_index, ct_files, ct_provider_saved,
                   ct_workers, ct_texts, ct_panel_actions, ct_persisted, chatOthers>>

\* the GetRemoteModelsWorker emits completed_llm_call: _on_remote_models
RemoteModelsWorkerCompletes ==
    /\ ct_models_worker = "running"
    /\ ct_models_worker' = "finished"
    /\ UNCHANGED <<ct_inference_active, ct_input_enabled, ct_stt_queue, ct_stt_mode,
                   ct_model_data, ct_current_conv_id, ct_index, ct_files, ct_provider_saved,
                   ct_workers, ct_texts, ct_panel_actions, ct_persisted, chatOthers>>

\* the GetRemoteModelsWorker emits failed_llm_call, connected to _on_llm_error
RemoteModelsWorkerFails ==
    /\ ct_models_worker = "running"
    /\ ct_models_worker' = "finished"
    /\ \E r \in {_on_llm_error(ChatState)} : Becomes(r)
    /\ UNCHANGED <<ct_texts, ct_panel_actions, chatOthers>>

\* the user picks a conversation of the panel
ConvSelected ==
    /\ \E c \in Range(ct_index) :
        \E r \in {_on_conv_selected(ChatState, c)} : Becomes(r)
    /\ ct_panel_actions < MaxPanelActions
    /\ ct_panel_actions' = ct_panel_actions + 1
    /\ UNCHANGED <<ct_models_worker, ct_texts, chatOthers>>

\* the user asks for a new conversation
NewConv ==
    /\ \/ _read_payload(ChatState, ct_current_conv_id) = <<>>
       \/ FreshIds(ChatState) # {}
    /\ \E cid \in IF FreshIds(ChatState) # {} THEN FreshIds(ChatState) ELSE {"c3"} :
        \E r \in {_on_new_conv(ChatState, cid)} : Becomes(r)
    /\ ct_panel_actions < MaxPanelActions
    /\ ct_panel_actions' = ct_panel_actions + 1
    /\ UNCHANGED <<ct_models_worker, ct_texts, chatOthers>>

\* the user deletes a conversation of the panel
DeleteConv ==
    /\ \E c \in Range(ct_index) :
        /\ (Len(ct_index) = 1 => FreshIds(ChatState) # {})
        /\ \E cid \in IF FreshIds(ChatState) # {} THEN FreshIds(ChatState) ELSE {"c3"} :
            \E r \in {_on_delete_conv(ChatState, c, cid)} : Becomes(r)
    /\ ct_panel_actions < MaxPanelActions
    /\ ct_panel_actions' = ct_panel_actions + 1
    /\ UNCHANGED <<ct_models_worker, ct_texts, chatOthers>>

\* the options dialog saves the providers without the selected one, through
\* its own SettingsManager, whose providers_changed signal the tab is not
\* connected to
SaveProviders ==
    /\ ct_provider_saved
    /\ ct_provider_saved' = FALSE
    /\ UNCHANGED <<ct_inference_active, ct_input_enabled, ct_stt_queue, ct_stt_mode,
                   ct_model_data, ct_current_conv_id, ct_index, ct_files, ct_workers,
                   ct_models_worker, ct_texts, ct_panel_actions, ct_persisted, chatOthers>>

\* the parts that follow the orchestration, unused
InitRest ==
    InitCacheCalls /\ InitSelectorUnused /\ InitRetryUnused /\ InitRegistryUnused /\ InitChatUnused

\* the ways the bridge is constructed, and the defaults of __init__
BridgeConfigs ==
    [ system_prompt : {None, <<"str", "sys">>},
      try_batch_execute : BOOLEAN,
      parallel_batch : BOOLEAN ]
DefaultBridgeConfig ==
    [ system_prompt |-> None, try_batch_execute |-> TRUE, parallel_batch |-> FALSE ]

\* the client and the working state of a turn before any call
InitIdleTurn ==
    /\ ts_cache = <<>>
    /\ ts_now = 0
    /\ rt_pc = "idle"
    /\ rt_conversation_id = "none"
    /\ rt_messages = <<>>
    /\ rt_tools = [tools |-> <<>>, alias_map |-> <<>>]
    /\ rt_msgs = <<>>
    /\ rt_first_msg = NoMessage
    /\ rt_final_msg = NoMessage
    /\ rt_msgs_with_tools = <<>>
    /\ rt_calls_payload = <<>>
    /\ rt_tool_results = <<>>
    /\ rt_batch_ok = FALSE
    /\ rt_next_call = 1
    /\ rt_model_requests = <<>>
    /\ rt_ts_requests = <<>>
    /\ rt_return = [text |-> None, phase |-> "none"]
    /\ rt_raised = "none"

\* the objects as constructed; no call made
InitTurn == rt_self \in BridgeConfigs /\ InitIdleTurn

\* the bridge constructed with its defaults and never called
InitTurnUnused == rt_self = DefaultBridgeConfig /\ InitIdleTurn /\ InitRest

otherVars == <<fsVars, sbVars, toolVars, exVars, restVars>>

\* run_one_turn is called and step 1 ends: tools are discovered (or taken
\* from the cache) and msgs is built
DiscoverTools ==
    /\ rt_pc = "idle"
    /\ \E c \in ConversationIds, m \in Conversations, force_refresh_tools \in BOOLEAN,
          resp \in DiscoverResponses :
        \E b \in {build_openai_tools(ts_cache, ts_now, c, force_refresh_tools, resp)} :
            /\ rt_conversation_id' = c
            /\ rt_messages' = m
            /\ rt_ts_requests' = IF b.discovered
                                 THEN Append(rt_ts_requests, discover(c, m, default_k_tools))
                                 ELSE rt_ts_requests
            /\ ts_cache' = b.cache
            /\ rt_tools' = [tools |-> b.tools, alias_map |-> b.alias_map]
            /\ rt_msgs' = _prepend_system(rt_self, m)
    /\ rt_pc' = "first_call"
    /\ UNCHANGED <<rt_self, ts_now, rt_first_msg, rt_msgs_with_tools, rt_calls_payload,
                   rt_tool_results, rt_batch_ok, rt_next_call, rt_model_requests,
                   rt_return, rt_raised, rt_final_msg, otherVars>>

\* run_one_turn is called and /discover fails: _post raises ToolServerError
DiscoverRaises ==
    /\ rt_pc = "idle"
    /\ \E c \in ConversationIds, m \in Conversations, force_refresh_tools \in BOOLEAN :
        /\ ~cache_hit(ts_cache, ts_now, c, force_refresh_tools)
        /\ rt_conversation_id' = c
        /\ rt_messages' = m
        /\ rt_ts_requests' = Append(rt_ts_requests, discover(c, m, default_k_tools))
    /\ rt_pc' = "raised"
    /\ rt_raised' = "ToolServerError"
    /\ UNCHANGED <<rt_self, ts_cache, ts_now, rt_tools, rt_msgs, rt_first_msg,
                   rt_msgs_with_tools, rt_calls_payload, rt_tool_results, rt_batch_ok,
                   rt_next_call, rt_model_requests, rt_return, rt_final_msg, otherVars>>

\* step 2, the model answers without tool calls: the turn returns
FirstCallNoToolCalls ==
    /\ rt_pc = "first_call"
    /\ \E first_msg \in FirstMessages :
        /\ no_tool_calls(first_msg)
        /\ rt_first_msg' = first_msg
        /\ rt_return' = no_tool_calls_return(first_msg)
    /\ rt_model_requests' = Append(rt_model_requests, _first_call(rt_msgs, rt_tools.tools))
    /\ rt_pc' = "done"
    /\ UNCHANGED <<rt_self, ts_cache, ts_now, rt_conversation_id, rt_messages, rt_tools,
                   rt_msgs, rt_msgs_with_tools, rt_calls_payload, rt_tool_results,
                   rt_batch_ok, rt_next_call, rt_ts_requests, rt_raised, rt_final_msg, otherVars>>

\* step 2, the model answers with tool calls: the assistant turn and the
\* payload are built and the batch or the sequential path is taken
FirstCallToolCalls ==
    /\ rt_pc = "first_call"
    /\ \E first_msg \in FirstMessages :
        /\ ~no_tool_calls(first_msg)
        /\ rt_first_msg' = first_msg
        /\ rt_msgs_with_tools' = msgs_with_tools(rt_msgs, first_msg)
        /\ rt_messages' = messages_after(rt_self, rt_messages, rt_msgs_with_tools')
        /\ rt_calls_payload' = calls_payload(first_msg)
        /\ rt_pc' = IF rt_self.try_batch_execute /\ Len(calls_payload(first_msg)) > 1
                    THEN "batch" ELSE "sequential"
    /\ rt_model_requests' = Append(rt_model_requests, _first_call(rt_msgs, rt_tools.tools))
    /\ rt_tool_results' = <<>>
    /\ rt_batch_ok' = FALSE
    /\ rt_next_call' = 1
    /\ UNCHANGED <<rt_self, ts_cache, ts_now, rt_conversation_id, rt_tools,
                   rt_msgs, rt_ts_requests, rt_return, rt_raised, rt_final_msg, otherVars>>

\* a chat.completions.create request raises: nothing catches it
ModelCallRaises ==
    /\ rt_pc \in {"first_call", "final_call"}
    /\ rt_model_requests' =
          Append(rt_model_requests,
                 IF rt_pc = "first_call" THEN _first_call(rt_msgs, rt_tools.tools)
                 ELSE _final_call(rt_msgs_with_tools))
    /\ rt_pc' = "raised"
    /\ rt_raised' = "APIError"
    /\ UNCHANGED <<rt_self, ts_cache, ts_now, rt_conversation_id, rt_messages, rt_tools,
                   rt_msgs, rt_first_msg, rt_msgs_with_tools, rt_calls_payload,
                   rt_tool_results, rt_batch_ok, rt_next_call, rt_ts_requests, rt_return,
                   rt_final_msg, otherVars>>

\* step 3, /execute/batch answers: a tool turn is appended per entry in the
\* order of the answer; an entry that is not a dict raises at r.get after it
\* was appended to tool_results, which begins the sequential fallback
ExecuteBatch ==
    /\ rt_pc = "batch"
    /\ \E batch_resp \in BatchResponses(rt_calls_payload) :
        /\ rt_msgs_with_tools' =
              rt_msgs_with_tools \o [ i \in 1..Len(batch_resp.results) |->
                                        batch_tool_turn(batch_resp.results[i]) ]
        /\ rt_messages' = messages_after(rt_self, rt_messages, rt_msgs_with_tools')
        /\ rt_tool_results' =
              IF batch_resp.malformed
              THEN rt_tool_results \o batch_resp.results
                       \o <<NotADict, [_batch_error |-> "AttributeError"]>>
              ELSE rt_tool_results \o batch_resp.results
        /\ rt_batch_ok' = ~batch_resp.malformed
        /\ rt_pc' = IF batch_resp.malformed THEN "sequential" ELSE "final_call"
    /\ rt_ts_requests' =
          Append(rt_ts_requests,
                 execute_batch(rt_conversation_id, rt_calls_payload, rt_self.parallel_batch))
    /\ UNCHANGED <<rt_self, ts_cache, ts_now, rt_conversation_id, rt_tools,
                   rt_msgs, rt_first_msg, rt_calls_payload, rt_next_call,
                   rt_model_requests, rt_return, rt_raised, rt_final_msg, otherVars>>

\* step 3, /execute/batch fails: the error is recorded and the sequential
\* fallback begins
ExecuteBatchRaises ==
    /\ rt_pc = "batch"
    /\ rt_tool_results' = Append(rt_tool_results, [_batch_error |-> "ToolServerError"])
    /\ rt_ts_requests' =
          Append(rt_ts_requests,
                 execute_batch(rt_conversation_id, rt_calls_payload, rt_self.parallel_batch))
    /\ rt_pc' = "sequential"
    /\ UNCHANGED <<rt_self, ts_cache, ts_now, rt_conversation_id, rt_messages, rt_tools,
                   rt_msgs, rt_first_msg, rt_msgs_with_tools, rt_calls_payload,
                   rt_batch_ok, rt_next_call, rt_model_requests, rt_return, rt_raised,
                   rt_final_msg, otherVars>>

\* step 3, one round of the sequential loop: /execute answers
ExecuteCall ==
    /\ rt_pc = "sequential"
    /\ \E exec_res \in ExecResults :
        /\ rt_tool_results' =
              Append(rt_tool_results,
                     sequential_tool_result(rt_calls_payload[rt_next_call], exec_res))
        /\ rt_msgs_with_tools' =
              Append(rt_msgs_with_tools,
                     sequential_tool_turn(rt_calls_payload[rt_next_call], exec_res))
        /\ rt_messages' = messages_after(rt_self, rt_messages, rt_msgs_with_tools')
    /\ rt_ts_requests' =
          Append(rt_ts_requests,
                 execute(rt_conversation_id, rt_calls_payload[rt_next_call].function,
                         rt_calls_payload[rt_next_call].arguments,
                         rt_calls_payload[rt_next_call].tool_call_id))
    /\ rt_next_call' = rt_next_call + 1
    /\ rt_pc' = IF rt_next_call = Len(rt_calls_payload) THEN "final_call" ELSE "sequential"
    /\ UNCHANGED <<rt_self, ts_cache, ts_now, rt_conversation_id, rt_tools,
                   rt_msgs, rt_first_msg, rt_calls_payload, rt_batch_ok,
                   rt_model_requests, rt_return, rt_raised, rt_final_msg, otherVars>>

\* step 3, /execute fails in the sequential loop: nothing catches it
ExecuteCallRaises ==
    /\ rt_pc = "sequential"
    /\ rt_ts_requests' =
          Append(rt_ts_requests,
                 execute(rt_conversation_id, rt_calls_payload[rt_next_call].function,
                         rt_calls_payload[rt_next_call].arguments,
                         rt_calls_payload[rt_next_call].tool_call_id))
    /\ rt_pc' = "raised"
    /\ rt_raised' = "ToolServerError"
    /\ UNCHANGED <<rt_self, ts_cache, ts_now, rt_conversation_id, rt_messages, rt_tools,
                   rt_msgs, rt_first_msg, rt_msgs_with_tools, rt_calls_payload,
                   rt_tool_results, rt_batch_ok, rt_next_call, rt_model_requests,
                   rt_return, rt_final_msg, otherVars>>

\* step 4, the model answers the final call: the turn returns
FinalCall ==
    /\ rt_pc = "final_call"
    /\ \E final_msg \in FinalMessages :
        /\ rt_final_msg' = final_msg
        /\ rt_return' = tool_calls_executed_return(final_msg)
        /\ rt_pc' = after_final_call(final_msg)
    /\ rt_model_requests' = Append(rt_model_requests, _final_call(rt_msgs_with_tools))
    /\ UNCHANGED <<rt_self, ts_cache, ts_now, rt_conversation_id, rt_messages, rt_tools,
                   rt_msgs, rt_first_msg, rt_msgs_with_tools, rt_calls_payload,
                   rt_tool_results, rt_batch_ok, rt_next_call, rt_ts_requests, rt_raised,
                   otherVars>>


\* ------------------------------------------------------------------------
\* Specifications
\* ------------------------------------------------------------------------

vars == <<fsVars, sbVars, toolVars, exVars, rtVars, restVars>>

\* the path sandbox on its own
SandboxInit == InitFsConfig /\ InitFsFull /\ InitSandbox /\ InitTools /\ InitExec /\ InitTurnUnused
SandboxNext == ResolveCall
SpecSandbox == SandboxInit /\ [][SandboxNext]_vars

\* the filesystem tools, invoked with caller-supplied arguments
ToolsInit == InitFsConfig /\ InitFsContent /\ InitSandbox /\ InitTools /\ InitExec /\ InitTurnUnused
ToolsNext ==
    \/ SaveFile
    \/ ReadFile
    \/ AppendToFile
    \/ DeleteFile
    \/ MoveItem
    \/ CreateDirectory
    \/ DeleteDirectory
    \/ ExecuteShellCommand
    \/ CreatePythonProject
SpecTools == ToolsInit /\ [][ToolsNext]_vars

\* the tool invoker on its own
ExecInit ==
    /\ FILE_IO_DIR = P_s
    /\ link_target = None
    /\ InitFsFull
    /\ InitSandbox
    /\ InitTools
    /\ InitExec
    /\ InitTurnUnused
ExecNext == ExecuteTool
SpecExec == ExecInit /\ [][ExecNext]_vars

\* one turn of the orchestration against free collaborators
TurnInit ==
    /\ FILE_IO_DIR = P_s
    /\ link_target = None
    /\ InitFsFull
    /\ InitSandbox
    /\ InitTools
    /\ InitExec
    /\ InitTurn
    /\ InitRest
TurnNext ==
    \/ DiscoverTools
    \/ DiscoverRaises
    \/ FirstCallNoToolCalls
    \/ FirstCallToolCalls
    \/ ModelCallRaises
    \/ ExecuteBatch
    \/ ExecuteBatchRaises
    \/ ExecuteCall
    \/ ExecuteCallRaises
    \/ FinalCall
SpecTurn == TurnInit /\ [][TurnNext]_vars

\* the same turn, run_one_turn being a sequence of blocking calls that each
\* return or raise
SpecTurnLive == SpecTurn /\ WF_vars(TurnNext)

\* one client serving build_openai_tools calls of several conversations
CacheInit ==
    /\ FILE_IO_DIR = P_s
    /\ link_target = None
    /\ InitFsFull
    /\ InitSandbox
    /\ InitTools
    /\ InitExec
    /\ InitTurnUnused
CacheNext ==
    \/ BuildOpenAITools
    \/ BuildOpenAIToolsRaises
    \/ Tick
SpecCache == CacheInit /\ [][CacheNext]_vars

\* the tool selector called once on a loaded module
SelectInit ==
    /\ FILE_IO_DIR = P_s
    /\ link_target = None
    /\ InitFsFull
    /\ InitSandbox
    /\ InitTools
    /\ InitExec
    /\ rt_self = DefaultBridgeConfig
    /\ InitIdleTurn
    /\ InitCacheCalls
    /\ InitSelector
    /\ InitRetryUnused
    /\ InitRegistryUnused
    /\ InitChatUnused
SelectNext == GetTools
SpecSelect == SelectInit /\ [][SelectNext]_vars

\* one query of a worker through _with_retries
RetryInit ==
    /\ FILE_IO_DIR = P_s
    /\ link_target = None
    /\ InitFsFull
    /\ InitSandbox
    /\ InitTools
    /\ InitExec
    /\ rt_self = DefaultBridgeConfig
    /\ InitIdleTurn
    /\ InitCacheCalls
    /\ InitSelectorUnused
    /\ InitRetry
    /\ InitRegistryUnused
    /\ InitChatUnused
RetryNext ==
    \/ FuncReturns
    \/ FuncRaisesHTTPError
    \/ FuncRaisesException
    \/ AfterLoop
    \/ WorkerEmits
SpecRetry == RetryInit /\ [][RetryNext]_vars

\* the registry built from the library, once or again
RegistryInit ==
    /\ FILE_IO_DIR = P_s
    /\ link_target = None
    /\ InitFsFull
    /\ InitSandbox
    /\ InitTools
    /\ InitExec
    /\ rt_self = DefaultBridgeConfig
    /\ InitIdleTurn
    /\ InitCacheCalls
    /\ InitSelectorUnused
    /\ InitRetryUnused
    /\ InitRegistry
    /\ InitChatUnused
RegistryNext == LoadAllTools
SpecRegistry == RegistryInit /\ [][RegistryNext]_vars

\* the chat tab under the user, the speech input and its workers
ChatInit ==
    /\ FILE_IO_DIR = P_s
    /\ link_target = None
    /\ InitFsFull
    /\ InitSandbox
    /\ InitTools
    /\ InitExec
    /\ rt_self = DefaultBridgeConfig
    /\ InitIdleTurn
    /\ InitCacheCalls
    /\ InitSelectorUnused
    /\ InitRetryUnused
    /\ InitRegistryUnused
    /\ InitChat
ChatNext ==
    \/ TypedSend
    \/ SttText
    \/ WorkerCompletes
    \/ WorkerFails
    \/ RemoteModelsWorkerStarts
    \/ RemoteModelsWorkerCompletes
    \/ RemoteModelsWorkerFails
    \/ ConvSelected
    \/ NewConv
    \/ DeleteConv
    \/ SaveProviders
SpecChat == ChatInit /\ [][ChatNext]_vars

\* the same tab, every started worker thread ending with one of its signals
SpecChatLive ==
    SpecChat /\ WF_vars(WorkerCompletes \/ WorkerFails)
             /\ WF_vars(RemoteModelsWorkerCompletes \/ RemoteModelsWorkerFails)

\* ------------------------------------------------------------------------
\* Properties of the path sandbox
\* ------------------------------------------------------------------------

\* the canonical root and the canonical form of root joined with p
CanonRoot == realpath(FILE_IO_DIR)
Canon(p) == realpath(join(CanonRoot, p))

\* the last call was made with a relative path against a configured root
RelativeCall == sb_path # None /\ FILE_IO_DIR # <<>> /\ ~isabs(sb_path)

\* the canonical form of the last call's path lies inside the canonical root
StaysInside == IsComponentPrefix(Components(CanonRoot), Components(Canon(sb_path)))

\* C1: every relative path whose canonical form (joined with the root, '..'
\* and symbolic links resolved) is not inside the canonical root segment by
\* segment is rejected: the call returns None.
C1_EscapingPathRejected ==
    (RelativeCall /\ ~StaysInside) => sb_ret = None

\* C1 witness: a relative path that canonicalises to the sibling directory
\* /se, whose text starts with the text of the root /s, was rejected.
C1_Witness ==
    /\ RelativeCall
    /\ ~StaysInside
    /\ StartsWith(Canon(sb_path), CanonRoot)
    /\ sb_ret = None
    /\ sb_log = "path_traversal"

\* C2: every absolute path is rejected, and rejected before any realpath
\* call is made.
C2_AbsoluteRejectedWithoutFs ==
    (sb_path # None /\ isabs(sb_path)) => (sb_ret = None /\ sb_fs_calls = 0)

\* C2 witness: an absolute path naming a file inside the configured root was
\* rejected with no filesystem access.
C2_Witness ==
    /\ sb_path = P_s_s
    /\ FILE_IO_DIR = P_s
    /\ sb_ret = None
    /\ sb_fs_calls = 0
    /\ sb_log = "absolute_path"

\* C3: every relative path that stays inside the root after canonicalisation
\* is accepted, and the value returned is the canonical form of root joined
\* with the path, which has the canonical root as its segment-wise prefix.
C3_InsidePathAccepted ==
    (RelativeCall /\ StaysInside) =>
        /\ sb_ret = Canon(sb_path)
        /\ isabs(sb_ret)
        /\ IsComponentPrefix(Components(CanonRoot), Components(sb_ret))

\* C3 witness: root /s (spelled /r), path e/s was accepted as /s/e/s.
C3_Witness ==
    /\ FILE_IO_DIR = P_r
    /\ sb_path = <<"e", sep, "s">>
    /\ sb_ret = <<sep, "s", sep, "e", sep, "s">>

\* ------------------------------------------------------------------------
\* Properties of the filesystem tools
\* ------------------------------------------------------------------------

\* C4: every filesystem access a tool performs on the basis of its
\* caller-supplied arguments (a file read, written, appended, moved or
\* deleted, a directory made or removed, a command's working directory)
\* lies at or below the canonical FILE_IO_DIR.
C4_NoAccessOutsideRoot ==
    \A t \in ft_touched : Under(CanonRoot, t.at)

\* The accesses of every tool other than a direct system.execute_command
\* call stay inside the workspace.
SandboxedToolsStayInside ==
    ft_name # "system.execute_command" => C4_NoAccessOutsideRoot

\* ------------------------------------------------------------------------
\* Properties of the tool invoker
\* ------------------------------------------------------------------------

ExCalled     == ex_tool_name # "idle"
ExRegistered == ex_tool_name \in ex_mapping
ExArgsBind   == Binds(ToolSignatures[ex_tool_name], ex_arguments)

\* the text contains the token
Mentions(text, token) == \E i \in 1..Len(text) : text[i] = token

\* C5: execute_tool never raises to its caller: for every tool name,
\* argument value and tool behaviour it returns a str.
C5_NeverRaises ==
    ExCalled => (ex_out.raised = "none" /\ is_str(ex_out.value))

\* C6: when the requested name is absent from the tool mapping, execute_tool
\* returns the error payload naming the missing tool, calls no tool callable
\* and does not raise.
C6_MissingToolReported ==
    (ExCalled /\ ~ExRegistered) =>
        /\ ex_out.raised = "none"
        /\ ex_out.value = NotFoundPayload(ex_tool_name)
        /\ Mentions(ex_out.value, "error")
        /\ Mentions(ex_out.value, ex_tool_name)
        /\ ex_invoked = {}

\* C6 witness: a name that some module defines but this mapping does not
\* register was requested, with arguments that would bind and a body that
\* would raise, and the not-found payload came back.
C6_Witness ==
    /\ ex_tool_name = "file.read"
    /\ ex_mapping = {"time.current_datetime", "system.execute_command"}
    /\ ex_arguments = [is_mapping |-> TRUE, keys |-> {"path"}]
    /\ ex_behaviour.exc = "SystemExit"
    /\ ex_out.raised = "none"
    /\ Mentions(ex_out.value, "file.read")
    /\ ex_invoked = {}

\* C7: a mismatch between the arguments and the tool's parameters is
\* reported as "Invalid arguments"; any other exception raised by the tool
\* body is reported as "An unexpected error occurred" in that tool; and the
\* "Invalid arguments" report is produced only for such a mismatch.
C7_FailureClassification ==
    (ExCalled /\ ExRegistered) =>
        /\ ~ExArgsBind => ex_out.value = InvalidArgumentsPayload(ex_tool_name)
        /\ (ExArgsBind /\ ex_behaviour.exc # "none") =>
               ex_out.value = UnexpectedErrorPayload(ex_tool_name)
        /\ ex_out.value = InvalidArgumentsPayload(ex_tool_name) => ~ExArgsBind

\* C8: a successful invocation returns the tool's result unchanged when it
\* is a str and its JSON text when it is not, and is never reported as an
\* error.
C8_SuccessPassThrough ==
    (ExCalled /\ ExRegistered /\ ExArgsBind /\ ex_behaviour.exc = "none") =>
        /\ ex_out.raised = "none"
        /\ ex_out.value = IF is_str(ex_behaviour.ret) THEN ex_behaviour.ret
                          ELSE <<"str", "json">> \o ex_behaviour.ret
        /\ ~Mentions(ex_out.value, "error")

\* ------------------------------------------------------------------------
\* Properties of the orchestration
\* ------------------------------------------------------------------------

\* the Tool Server requests that execute tools
ToolInvocations ==
    { i \in 1..Len(rt_ts_requests) : rt_ts_requests[i].path \in {"/execute", "/execute/batch"} }

\* the model requests made by _final_call
FinalCalls == { i \in 1..Len(rt_model_requests) : rt_model_requests[i].call = "final" }

\* the first model call has answered
FirstAnswered == rt_first_msg # NoMessage

\* C9: when the first model response holds no tool calls (tool_calls None or
\* empty) the turn has ended: run_one_turn has returned the response content
\* ("" for a null content) with phase "no_tool_calls", no /execute and no
\* /execute/batch request was sent and no final model call was made.
C9_NoToolCallsEndsTurn ==
    (FirstAnswered /\ no_tool_calls(rt_first_msg)) =>
        /\ rt_pc = "done"
        /\ rt_raised = "none"
        /\ rt_return.text = or_empty(rt_first_msg.content)
        /\ rt_return.phase = "no_tool_calls"
        /\ ToolInvocations = {}
        /\ FinalCalls = {}
        /\ Len(rt_model_requests) = 1

\* a turn returned a non-empty answer of a response without tool calls
C9_Witness ==
    /\ rt_pc = "done"
    /\ FirstAnswered
    /\ no_tool_calls(rt_first_msg)
    /\ ~rt_first_msg.tool_calls.is_none
    /\ rt_return.text = <<"str", "answer">>

\* C10: when the first model response holds tool calls, the final model call
\* carries exactly the messages of the first call, then one assistant turn
\* with the content and the tool calls of that response, then tool-role turns
\* only; it offers no tools; and once the turn has returned, the text it
\* returned is the content of the final response ("" for a null content)
\* with phase "tool_calls_executed".
C10_FinalCallConversation ==
    (FirstAnswered /\ ~no_tool_calls(rt_first_msg)) =>
        /\ \A i \in FinalCalls :
            LET first == rt_model_requests[1]
                final == rt_model_requests[i]
                n == Len(first.messages)
            IN /\ i = 2
               /\ first.call = "first"
               /\ Len(final.messages) > n
               /\ SubSeq(final.messages, 1, n) = first.messages
               /\ final.messages[n + 1].role = "assistant"
               /\ final.messages[n + 1].content = rt_first_msg.content
               /\ final.messages[n + 1].tool_calls =
                      _tool_calls_as_message_dicts(rt_first_msg.tool_calls)
               /\ \A j \in (n + 2)..Len(final.messages) : final.messages[j].role = "tool"
               /\ final.messages = rt_msgs_with_tools
               /\ final.tools = NotGiven
        /\ rt_pc = "done" =>
            /\ FinalCalls = {2}
            /\ rt_final_msg # NoMessage
            /\ rt_return.text = or_empty(rt_final_msg.content)
            /\ rt_return.phase = "tool_calls_executed"

\* a turn with a system prompt and two tool calls returned the final answer
C10_Witness ==
    /\ rt_pc = "done"
    /\ ~no_tool_calls(rt_first_msg)
    /\ Len(rt_calls_payload) = 2
    /\ rt_self.system_prompt # None
    /\ Len(rt_msgs_with_tools) = Len(rt_msgs) + 3
    /\ rt_return.text = <<"str", "answer">>

\* the tool-role turns of the working conversation: what follows the
\* assistant turn
ToolTurns == SubSeq(rt_msgs_with_tools, Len(rt_msgs) + 2, Len(rt_msgs_with_tools))

\* the tool phase of a turn with tool calls is over
ToolPhaseOver ==
    FirstAnswered /\ ~no_tool_calls(rt_first_msg) /\ rt_pc \in {"final_call", "done"}

\* the batch attempt of the turn failed
BatchFailed ==
    \E i \in 1..Len(rt_tool_results) : "_batch_error" \in DOMAIN rt_tool_results[i]

\* C11: once the tool phase is over, the i-th tool-role turn carries the
\* tool_call_id and the function name of the i-th requested tool call, on the
\* batch path in whatever order /execute/batch answered and on the sequential
\* path.
C11_ToolTurnsInRequestOrder ==
    ToolPhaseOver =>
        \A i \in 1..Len(ToolTurns) :
            i <= Len(rt_calls_payload) =>
                /\ ToolTurns[i].tool_call_id = rt_calls_payload[i].tool_call_id
                /\ ToolTurns[i].name = rt_calls_payload[i].function

\* C12: when the batch attempt failed, the sequential fallback ran over the
\* same call list and the tool phase ends with one tool-role turn per
\* requested call, the i-th for the i-th call, and one result per call in
\* tool_results beside the record of the batch error.
C12_FallbackOneResultPerCall ==
    (ToolPhaseOver /\ BatchFailed) =>
        /\ Len(ToolTurns) = Len(rt_calls_payload)
        /\ \A i \in 1..Len(ToolTurns) :
              ToolTurns[i].tool_call_id = rt_calls_payload[i].tool_call_id
        /\ Cardinality({ i \in 1..Len(rt_tool_results) :
                            "tool_call_id" \in DOMAIN rt_tool_results[i] })
               = Len(rt_calls_payload)

\* C13: a tool call whose /execute request fails does not end the turn: no
\* ToolServerError leaves run_one_turn once the first response has asked
\* for tools.
C13_FailedCallDoesNotBlock ==
    ~(rt_pc = "raised" /\ rt_raised = "ToolServerError" /\ FirstAnswered)

\* C14: no exception leaves run_one_turn, whether raised by discovery, by
\* a tool execution or by a model call.
C14_NoFaultEscapes == rt_raised = "none"

\* C18: a failing discovery does not fail the turn: run_one_turn goes on to
\* the first model call instead of raising before it.
C18_DiscoveryFailureDegrades ==
    ~(rt_pc = "raised" /\ rt_model_requests = <<>>)

\* ------------------------------------------------------------------------
\* Properties of the discovery cache
\* ------------------------------------------------------------------------

\* the last call found an entry of its conversation that had not expired
FoundUnexpired ==
    /\ bt_call.conversation_id \in DOMAIN bt_before
    /\ bt_before[bt_call.conversation_id].expires > bt_call.now

\* C15: a build_openai_tools call asks /discover exactly when force_refresh
\* is true or the cache holds no unexpired entry of the conversation;
\* otherwise it returns the cached tools and alias_map as they are and
\* leaves the cache as it was.
C15_DiscoverIffForcedOrExpired ==
    bt_call.made =>
        /\ bt_call.discovered <=> (bt_call.force_refresh \/ ~FoundUnexpired)
        /\ ~bt_call.discovered =>
              /\ bt_call.raised = "none"
              /\ bt_call.tools = bt_before[bt_call.conversation_id].tools
              /\ bt_call.alias_map = bt_before[bt_call.conversation_id].alias_map
              /\ ts_cache = bt_before

\* a call within the TTL window answered from the cache, and a forced call
\* within the window asked /discover again
C15_Witness ==
    /\ bt_call.made
    /\ FoundUnexpired
    /\ bt_call.force_refresh
    /\ bt_call.discovered
    /\ bt_call.raised = "none"
    /\ bt_call.now > 0

\* C16: a build_openai_tools call for one conversation returns tools that
\* were selected for that conversation and leaves the cache entries of all
\* other conversations as they were.
C16_CachePerConversation ==
    bt_call.made =>
        /\ bt_call.raised = "none" => bt_call.tools[1] = bt_call.conversation_id
        /\ \A c \in CacheConversationIds \ {bt_call.conversation_id} :
              /\ c \in DOMAIN ts_cache <=> c \in DOMAIN bt_before
              /\ c \in DOMAIN bt_before => ts_cache[c] = bt_before[c]

\* a call for A answered from A's entry while B held an unexpired entry
C16_Witness ==
    /\ bt_call.made
    /\ bt_call.conversation_id = "A"
    /\ ~bt_call.discovered
    /\ "B" \in DOMAIN bt_before
    /\ bt_before["B"].expires > bt_call.now
    /\ bt_before["B"].tools # bt_call.tools

\* ------------------------------------------------------------------------
\* Properties of the tool selector
\* ------------------------------------------------------------------------

\* C17: whatever the conversation and whatever the discovery outcome (any
\* ranking, the embedding service unavailable, a failing query), the tool
\* list get_tools returns holds every name of CORE_TOOLS_TO_ALWAYS_INCLUDE.
C17_CoreToolsAlwaysReturned ==
    (gt_out.called /\ gt_out.raised = "none") =>
        Range(CORE_TOOLS_TO_ALWAYS_INCLUDE) \subseteq Range(gt_out.tools)

\* ------------------------------------------------------------------------
\* Properties of the retry wrapper
\* ------------------------------------------------------------------------

\* a failure the wrapper is to retry: HTTP 429 or 5xx
RetryableFailure(o) ==
    /\ o.kind = "HTTPError"
    /\ o.has_response
    /\ (o.status_code = 429 \/ (500 =< o.status_code /\ o.status_code =< 599))

LastOutcome == wr_outcomes[Len(wr_outcomes)]

\* C19: _with_retries calls func at most max_retries + 1 times and stops
\* looping then, calls it again only after an HTTP 429 or 5xx failure,
\* returns only when func returned, and otherwise raises the last error,
\* which the worker emits as failed_llm_call.
C19_BoundedRetriesThenRaise ==
    /\ Len(wr_outcomes) = wr_attempt
    /\ wr_attempt =< wr_max_retries + 1
    /\ (wr_pc = "loop" => wr_attempt < wr_max_retries + 1)
    /\ \A i \in 1..(Len(wr_outcomes) - 1) : RetryableFailure(wr_outcomes[i])
    /\ (wr_pc = "returned" => (wr_attempt > 0 /\ LastOutcome = FuncOk))
    /\ (wr_pc = "raised" =>
            /\ wr_attempt > 0
            /\ LastOutcome.kind # "ok"
            /\ wr_raised = LastOutcome
            /\ (RetryableFailure(LastOutcome) => wr_attempt = wr_max_retries + 1))
    /\ (wr_signal = "failed_llm_call" => wr_pc = "raised")
    /\ (wr_signal = "completed_llm_call" => wr_pc = "returned")

\* the attempts are exhausted on retryable failures and the worker emitted
\* the failure
C19_Witness ==
    /\ wr_max_retries >= 2
    /\ wr_attempt = wr_max_retries + 1
    /\ RetryableFailure(LastOutcome)
    /\ wr_raised = LastOutcome
    /\ wr_signal = "failed_llm_call"

RECURSIVE Pow2(_)
Pow2(k) == IF k = 0 THEN 1 ELSE 2 * Pow2(k - 1)

\* the response of the failure carries a numeric Retry-After header
NumericHint(o) == o.has_response /\ o.headers.present /\ ~float_(o.headers.text).raised

\* C20: the wait before the k-th retry (k = 0, 1, ...) is the Retry-After
\* value of the failed response when that header is numeric, and
\* base_delay * 2^k otherwise.
C20_WaitHonoursRetryAfter ==
    \A k \in 1..Len(wr_waits) :
        wr_waits[k] = IF NumericHint(wr_outcomes[k])
                      THEN float_(wr_outcomes[k].headers.text).value
                      ELSE wr_base_delay * Pow2(k - 1)

FoundZeroTtl ==
    /\ bt_call.made
    /\ bt_call.conversation_id \in DOMAIN bt_ttl_before
    /\ bt_ttl_before[bt_call.conversation_id].value = 0

\* C24: a build_openai_tools call for a conversation whose entry was stored
\* from a discovery answer with cache_ttl_sec = 0 (or without cache_ttl_sec)
\* asks /discover again, at the same or a later clock reading, even with
\* force_refresh = false.
C24_ZeroTtlDisablesCaching == FoundZeroTtl => bt_call.discovered

\* an entry stored from an answer without cache_ttl_sec was found at the very
\* clock reading it was stored at, by a call without force_refresh, and
\* /discover was asked
C24_Witness ==
    /\ FoundZeroTtl
    /\ ~bt_ttl_before[bt_call.conversation_id].given
    /\ ~bt_call.force_refresh
    /\ bt_before[bt_call.conversation_id].expires = bt_call.now
    /\ bt_call.discovered
    /\ bt_call.raised = "none"

\* C25: once the tool phase is over, every tool call the first response
\* requested has exactly one tool-role turn carrying its tool_call_id in the
\* working conversation, through the batch path, the sequential path, or a
\* batch attempt followed by the fallback.
C25_OneToolTurnPerRequest ==
    ToolPhaseOver =>
        \A k \in 1..Len(rt_calls_payload) :
            Cardinality({ i \in 1..Len(ToolTurns) :
                            ToolTurns[i].tool_call_id = rt_calls_payload[k].tool_call_id }) = 1

\* C26: once run_one_turn has been entered, no step of it changes the
\* caller's messages list: the assistant turn and the tool turns go to the
\* working conversation of the call only, on every path.
C26_CallerMessagesUnchanged ==
    [][rt_pc # "idle" => rt_messages' = rt_messages]_vars

\* a turn without system prompt, where msgs is the caller's own list, went
\* through the tool phase: the working conversation holds the assistant
\* turn and tool turns, the caller's list holds none of them
C26_Witness ==
    /\ rt_pc = "done"
    /\ rt_self.system_prompt = None
    /\ rt_msgs = rt_messages
    /\ Len(ToolTurns) > 0
    /\ Len(rt_msgs_with_tools) > Len(rt_messages) + 1

\* the phases of a turn in the order of its requests
PhasesInOrder ==
    /\ Len(rt_model_requests) =< 2
    /\ (rt_model_requests # <<>> =>
            /\ rt_pc # "idle"
            /\ rt_msgs = _prepend_system(rt_self, rt_messages))
    /\ (ToolInvocations # {} => (FirstAnswered /\ Len(rt_model_requests) >= 1))
    /\ (FinalCalls # {} =>
            /\ rt_pc \in {"done", "raised"}
            /\ Len(rt_model_requests) = 2
            /\ (rt_raised = "none" => rt_final_msg # NoMessage))
    /\ (rt_final_msg # NoMessage => rt_pc = "done")

\* C27: one run_one_turn goes through its phases in sequence and ends: the
\* first model call is made after discovery has returned, tool requests are
\* made only after the first response, no tool request follows the final
\* call, at most two model calls are made, and the turn ends (returns or
\* raises) even when the final response asks for tools again.
C27_PhasesSequentialAndBounded ==
    /\ []PhasesInOrder
    /\ [][(rt_model_requests = <<>> /\ rt_model_requests' # <<>>) => rt_pc = "first_call"]_vars
    /\ [][FinalCalls # {} =>
            (rt_ts_requests' = rt_ts_requests /\ rt_model_requests' = rt_model_requests)]_vars
    /\ <>(rt_pc \in {"done", "raised"})

\* a turn ended after tool executions and a final response that asks for a
\* tool again
C27_Witness ==
    /\ rt_pc = "done"
    /\ ToolInvocations # {}
    /\ Len(rt_model_requests) = 2
    /\ ~no_tool_calls(rt_final_msg)

\* the registry holds a name with a descriptor and no callable, or a name
\* with a callable and no descriptor
RegistryMismatch == Range(ALL_TOOL_DEFINITIONS) # TOOL_MAPPING

\* C22: with a registry in which some name has a descriptor but no callable,
\* or a callable but no descriptor, get_tools returns normally and offers
\* only tools that have a descriptor.
C22_MismatchTolerated ==
    (gt_out.called /\ RegistryMismatch) =>
        /\ gt_out.raised = "none"
        /\ Range(gt_out.tools) \subseteq Range(ALL_TOOL_DEFINITIONS)

\* C21: after any number of runs of the aggregation the descriptor list,
\* the callable map and the name-to-description lookup equal those after
\* its first run.
C21_RegistryBuildIdempotent ==
    reg_runs >= 1 =>
        /\ ALL_TOOL_DEFINITIONS = reg_first.definitions
        /\ reg_mapping = reg_first.mapping
        /\ TOOL_NAME_TO_DESCRIPTION = reg_first.descriptions

\* ------------------------------------------------------------------------
\* Properties of the chat tab
\* ------------------------------------------------------------------------

\* C28: over every interleaving of typed sends, speech results, queued
\* utterances, worker completions and worker failures (the failure signal of
\* the remote-model-list worker included), at most one LLM worker is in
\* flight: send_message never starts one while another has not answered.
C28_OneRequestInFlight == Cardinality(ct_workers) =< 1

\* C29: every assistant message is appended to the conversation to which
\* send_message appended the user message it answers.
C29_ResponseInRequestConversation ==
    \A a \in ct_persisted :
        a.role = "assistant" =>
            \E u \in ct_persisted :
                u.role = "user" /\ u.text = a.text /\ u.conv = a.conv

\* C30: whenever _inference_active is set, it is eventually false again
\* with the input field enabled.
C30_BusyEventuallyReleased ==
    ct_inference_active ~> (~ct_inference_active /\ ct_input_enabled)

====
